---- MODULE Spec2Model ----
(***************************************************************************)
(* Model of the torrent-backed streaming layer of magnolia                 *)
(* (src/src-tauri/src/torrent.rs): the TorrentManager's handle map, the    *)
(* bounded cache of paused sessions and its side file, and the stream      *)
(* status computation.  The download engine (librqbit) is an external      *)
(* collaborator: it is modelled by the interface the manager calls (add,   *)
(* get, pause, unpause, delete), each call of which may fail.              *)
(***************************************************************************)
EXTENDS Integers, Sequences, FiniteSets, TLC

VARIABLES
    torrents,          \* TorrentManager.torrents: handle id -> TorrentEntry
    next_id,           \* TorrentManager.next_id
    sessions,          \* the engine's managed torrents: session id -> session
    next_session_id,   \* the engine's id counter
    torrent_cache,     \* TorrentManager.torrent_cache: Vec<CachedTorrent>, front first
    cache_file,        \* download_dir/torrent_cache.json: None, or Some(saved list)
    transcode_states,  \* (session id, file index) -> TranscodeState
    metadata_cache,    \* (session id, file index) -> MkvMetadata
    live_pipes,        \* (session, file, track) with a live transcoder attached
    caps,              \* bounds of this run: handles registered, engine ids handed out
    observe,           \* whether the replies of the calls are recorded in last
    last,              \* the last call and its reply, when observed
    transcoder,        \* (session id, file index) -> the transcode_audio_track task
    locks,             \* the RwLocks of the manager and the tasks that take them
    pump,              \* a live transcoded-audio request: byte pump, ffmpeg, response
    sampler,           \* the sampling loop of a metadata request
    prober,            \* the metadata requests in flight and their scratch files
    kept_files,        \* sessions deleted from the engine whose files stay on disk
    subtitles,         \* extract_subtitle, its background task and the subtitle files
    applied            \* the last pure computation applied: what, to what, the result

task_vars ==
    <<transcoder, locks, pump, sampler, prober, kept_files, subtitles, applied>>

vars == <<torrents, next_id, sessions, next_session_id, torrent_cache, cache_file,
          transcode_states, metadata_cache, live_pipes, caps, observe, last,
          task_vars>>

----------------------------------------------------------------------------
(* Bounds of the model and constants of the program *)

MaxHandles == 2        \* add_torrent calls in one run
MaxNewSessions == 2    \* sessions the engine adds after startup
MaxSeqHandles == 11    \* add_torrent calls in a run that caches one handle after another
TicksPerSecond == 2    \* clock ticks in one second

CacheLimit == 10       \* "Enforce 10 torrent limit"

----------------------------------------------------------------------------
(* Option values and finite maps *)

None == <<>>
Some(x) == <<x>>
IsSome(o) == o # <<>>
Unwrap(o) == o[1]

Remove(f, k) == [x \in DOMAIN f \ {k} |-> f[x]]
Insert(f, k, v) == [x \in DOMAIN f \cup {k} |-> IF x = k THEN v ELSE f[x]]
EmptyMap == [x \in {} |-> {}]
Min(a, b) == IF a <= b THEN a ELSE b

\* File indices a client asks for, and the clock readings of SystemTime::now(), in
\* ticks: a reading that is no whole number of seconds.
FileIndices == {0, 1}
Times == {1}

----------------------------------------------------------------------------
(* The download engine (librqbit Session), by its interface *)

\* Session::get(TorrentIdOrHash::Id(id))
SessionGet(sess, id) == IF id \in DOMAIN sess THEN Some(sess[id]) ELSE None

\* The session the engine already manages for a source, if any.
ManagedFor(sess, uri) == {id \in DOMAIN sess : sess[id].uri = uri}

\* A torrent the engine has just added: nothing fetched, no stream yet.
NewSession(uri, paused, only_files) ==
    [uri |-> uri, paused |-> paused, only_files |-> only_files,
     progress_bytes |-> 0, finished |-> FALSE, streamable |-> FALSE]

\* Session::add_torrent without list_only: AlreadyManaged(id) when the source is
\* managed, else Added(id) with a fresh id and the options given.
EngineAdd(sess, next, uri, paused, only_files) ==
    IF ManagedFor(sess, uri) # {}
    THEN [kind |-> "AlreadyManaged", id |-> CHOOSE id \in ManagedFor(sess, uri) : TRUE,
          sessions |-> sess, next |-> next]
    ELSE [kind |-> "Added", id |-> next,
          sessions |-> Insert(sess, next,
                              NewSession(uri, paused, only_files)),
          next |-> next + 1]

\* Session::pause / Session::unpause
EnginePause(sess, id) == [sess EXCEPT ![id].paused = TRUE]
EngineUnpause(sess, id) == [sess EXCEPT ![id].paused = FALSE]

\* Mutant: the engine forgets nothing.
EngineDeleteNothing(sess, id) == sess

\* Session::delete(id, delete_files): the torrent leaves the engine.
EngineDelete(sess, id) == Remove(sess, id)

----------------------------------------------------------------------------
(* CachedTorrent and its JSON form *)

CachedTorrent(handle_id, session_id, magnet_url, cached_at) ==
    [handle_id |-> handle_id, session_id |-> session_id,
     magnet_url |-> magnet_url, cached_at |-> cached_at]

\* systemtime_serde::serialize: whole seconds since the epoch
SerializeTime(t) == t \div TicksPerSecond
\* systemtime_serde::deserialize
DeserializeTime(secs) == secs * TicksPerSecond

SerializeEntry(ct) == [ct EXCEPT !.cached_at = SerializeTime(ct.cached_at)]
DeserializeEntry(js) == [js EXCEPT !.cached_at = DeserializeTime(js.cached_at)]

\* serde_json::to_string_pretty(&*cache)
Serialize(cache) == [i \in 1 .. Len(cache) |-> SerializeEntry(cache[i])]
\* serde_json::from_str::<Vec<CachedTorrent>>
Deserialize(json) == [i \in 1 .. Len(json) |-> DeserializeEntry(json[i])]

----------------------------------------------------------------------------
(* The cache list *)

\* Mutant: the lookup of the cached entry never finds one.
FindCachedNever(cache, handle_id) == None

\* cache.iter().find(|ct| ct.handle_id == handle_id).map(|ct| ct.session_id)
FindCached(cache, handle_id) ==
    LET hits == {i \in 1 .. Len(cache) : cache[i].handle_id = handle_id}
    IN IF hits = {} THEN None
       ELSE Some(cache[CHOOSE i \in hits : \A j \in hits : i <= j].session_id)

\* cache.retain(|ct| ct.handle_id != handle_id)
RetainOthers(cache, handle_id) ==
    SelectSeq(cache, LAMBDA ct : ct.handle_id # handle_id)

\* Mutant: only the entries of the handle are dropped.
RetainByHandle(cache, handle_id, magnet_url) ==
    SelectSeq(cache, LAMBDA ct : ct.handle_id # handle_id)

\* cache.retain(|ct| ct.handle_id != handle_id && ct.magnet_url != magnet_url)
RetainDistinct(cache, handle_id, magnet_url) ==
    SelectSeq(cache, LAMBDA ct : ct.handle_id # handle_id /\ ct.magnet_url # magnet_url)

\* cache.insert(0, cached_torrent)
InsertFront(cache, ct) == <<ct>> \o cache

\* Mutant: the limit check is off by one.
OverLimitOffByOne(cache) == Len(cache) > CacheLimit + 1

\* while cache.len() > 10
OverLimit(cache) == Len(cache) > CacheLimit

\* cache.pop(): the entry taken off, and the list left
Oldest(cache) == cache[Len(cache)]
\* Mutant: the eviction takes the entry at the front.
PopNewest(cache) == Tail(cache)

PopOldest(cache) == SubSeq(cache, 1, Len(cache) - 1)

\* old_entry.session_id = None, when the evicted handle is still registered
ClearSession(tor, handle_id) ==
    IF handle_id \in DOMAIN tor THEN [tor EXCEPT ![handle_id].session_id = None] ELSE tor

\* The loop "while cache.len() > 10 { pop; session.delete(..)?; clear session_id }".
\* delete_fails: the engine's delete of the first evicted session fails.  A delete of
\* a session the engine does not know fails as well.  The ? leaves the loop with the
\* entry already popped.
RECURSIVE EnforceLimit(_, _, _, _)
EnforceLimit(cache, sess, tor, delete_fails) ==
    IF ~OverLimit(cache)
    THEN [cache |-> cache, sessions |-> sess, torrents |-> tor, ok |-> TRUE, evicted |-> <<>>]
    ELSE LET oldest == Oldest(cache)
             rest == PopOldest(cache)
         IN IF delete_fails \/ oldest.session_id \notin DOMAIN sess
            THEN [cache |-> rest, sessions |-> sess, torrents |-> tor, ok |-> FALSE,
                  evicted |-> <<oldest>>]
            ELSE LET r == EnforceLimit(rest, EngineDelete(sess, oldest.session_id),
                                       ClearSession(tor, oldest.handle_id), FALSE)
                 IN [r EXCEPT !.evicted = <<oldest>> \o r.evicted]

----------------------------------------------------------------------------
(* Startup: TorrentManager::new and load_cache_from_disk *)

RECURSIVE RestoreEntries(_, _, _, _, _)

\* Mutant: the sources are added running.
RestoreEntriesRunning(entries, i, sess, next, unreachable) ==
    IF i > Len(entries)
    THEN [cache |-> <<>>, sessions |-> sess, next |-> next]
    ELSE IF i \in unreachable
         THEN RestoreEntries(entries, i + 1, sess, next, unreachable)
         ELSE LET r == EngineAdd(sess, next, entries[i].magnet_url, FALSE, None)
                  tail == RestoreEntries(entries, i + 1, r.sessions, r.next, unreachable)
              IN [tail EXCEPT !.cache =
                      <<[entries[i] EXCEPT !.session_id = r.id]>> \o tail.cache]

\* The loop of load_cache_from_disk over the entries read from the file.  unreachable:
\* the positions whose source the engine cannot add; those entries are left out.
RestoreEntries(entries, i, sess, next, unreachable) ==
    IF i > Len(entries)
    THEN [cache |-> <<>>, sessions |-> sess, next |-> next]
    ELSE IF i \in unreachable
         THEN RestoreEntries(entries, i + 1, sess, next, unreachable)
         ELSE LET r == EngineAdd(sess, next, entries[i].magnet_url, TRUE, None)
                  tail == RestoreEntries(entries, i + 1, r.sessions, r.next, unreachable)
              IN [tail EXCEPT !.cache =
                      <<[entries[i] EXCEPT !.session_id = r.id]>> \o tail.cache]

\* A cache file left by an earlier run that cached n handles one after another: the
\* oldest entry (rank 1) is at the back.  off is the id of the first of those handles.
PreviousRunFile(n, off) ==
    [i \in 1 .. n |->
        LET rank == n - i + 1
        IN SerializeEntry(CachedTorrent(off + rank - 1, CacheLimit + rank, rank, 0))]

\* The source URIs a client registers in this run.
RegUris == {CacheLimit + 1, CacheLimit + 2}

\* The record of a call and its reply; n tells two calls in a row apart.
NoCall == [op |-> "new", handle_id |-> 0, res |-> "ok", path |-> "none", n |-> 0]
Called(op, handle_id, res, path) ==
    IF observe
    THEN [op |-> op, handle_id |-> handle_id, res |-> res, path |-> path,
          n |-> 1 - last.n]
    ELSE last

\* The tasks that call the manager at the same time, and a task that is in no call.
\* A task in a call: the method, the place it has reached, its arguments, its locals
\* (session_id, oldest) and the engine call it is waiting for.
Tasks == {1, 2}
Task(op, pc, handle_id, arg, session_id, oldest, engine) ==
    [op |-> op, pc |-> pc, handle_id |-> handle_id, arg |-> arg,
     session_id |-> session_id, oldest |-> oldest, engine |-> engine]
NoTask == Task("none", "idle", 0, 0, None, None, "none")

\* The manager's RwLocks with no guard alive: the readers and the writer of
\* self.torrents, the tasks waiting for a guard of it in the order they asked, the
\* writer of self.torrent_cache.
NoLocks ==
    [task |-> [t \in Tasks |-> NoTask], readers |-> {}, writer |-> None,
     cache_writer |-> None, queue |-> <<>>]

\* No subtitle extracted: no background task, no file of it in the temp dir, nothing
\* in the subtitle cache of the track, nothing returned or loaded.
NoSubtitles ==
    [background |-> "none", temp |-> None, cache |-> None, returned |-> None,
     loaded |-> None]

\* No metadata request in flight and no scratch file in the temp dir.
NoProbes == [scratch |-> {}, running |-> [t \in Tasks |-> None]]

\* The state TorrentManager::new leaves, for a cache file (or none) found on disk.
InitFrom(file, unreachable, obs, max_handles, max_new_sessions) ==
    LET r == IF IsSome(file)
             THEN RestoreEntries(Deserialize(Unwrap(file)), 1, EmptyMap, 0, unreachable)
             ELSE [cache |-> <<>>, sessions |-> EmptyMap, next |-> 0]
    IN /\ torrents = EmptyMap
       /\ next_id = 0
       /\ sessions = r.sessions
       /\ next_session_id = r.next
       /\ torrent_cache = r.cache
       /\ cache_file = IF IsSome(file) THEN Some(Serialize(r.cache)) ELSE None
       /\ transcode_states = EmptyMap
       /\ metadata_cache = EmptyMap
       /\ live_pipes = {}
       /\ caps = [handles |-> max_handles, sessions |-> r.next + max_new_sessions]
       /\ observe = obs
       /\ last = NoCall
       /\ transcoder = EmptyMap
       /\ locks = NoLocks
       /\ pump = None
       /\ sampler = None
       /\ prober = NoProbes
       /\ kept_files = {}
       /\ subtitles = NoSubtitles
    /\ applied = None

\* A first start, or a start that finds the file of a full cache left by handles and
\* sources other than those of this run.
Init ==
    \/ InitFrom(None, {}, FALSE, MaxHandles, MaxNewSessions)
    \/ InitFrom(Some(PreviousRunFile(CacheLimit, MaxHandles)), {}, FALSE,
                MaxHandles, MaxNewSessions)

----------------------------------------------------------------------------
(* Session Lifecycle Manager: the TorrentManager's operations.  Every action is one
   call of the method it is named after; the last conjuncts record how it returned. *)

Unchanged_media ==
    UNCHANGED <<transcode_states, metadata_cache, live_pipes, caps, observe, task_vars>>

\* Mutant: the handle is stored also when the engine could not resolve the source.
AddTorrentUnresolved(magnet_or_url, engine_ok) ==
    /\ next_id < caps.handles
    /\ torrents' = Insert(torrents, next_id,
                          [magnet_url |-> magnet_or_url, session_id |-> None])
    /\ next_id' = next_id + 1
    /\ last' = Called("add_torrent", next_id, IF engine_ok THEN "ok" ELSE "err",
                      IF engine_ok THEN "listed" ELSE "unreachable")
    /\ UNCHANGED <<sessions, next_session_id, torrent_cache, cache_file>>
    /\ Unchanged_media

\* add_torrent(magnet_or_url): a list_only add fetches the metadata and leaves no
\* torrent in the engine; the handle is stored with no session.
AddTorrent(magnet_or_url, engine_ok) ==
    /\ next_id < caps.handles
    /\ IF engine_ok
       THEN /\ torrents' = Insert(torrents, next_id,
                                  [magnet_url |-> magnet_or_url, session_id |-> None])
            /\ next_id' = next_id + 1
            /\ last' = Called("add_torrent", next_id, "ok", "listed")
       ELSE /\ UNCHANGED <<torrents, next_id>>
            /\ last' = Called("add_torrent", next_id, "err", "unreachable")
    /\ UNCHANGED <<sessions, next_session_id, torrent_cache, cache_file>>
    /\ Unchanged_media

\* The second half of prepare_stream: add the source restricted to one file and bind
\* the session id the engine answers with.  cache1 is the cache list as the first half
\* left it.
PrepareFresh(handle_id, file_index, cache1, fail) ==
    LET entry == torrents[handle_id]
        r == EngineAdd(sessions, next_session_id, entry.magnet_url, FALSE, Some(file_index))
        must_unpause == r.kind = "AlreadyManaged" /\ r.sessions[r.id].paused
    IN /\ torrent_cache' = cache1
       /\ fail \in {"none", "add"} \cup (IF must_unpause THEN {"unpause"} ELSE {})
       /\ r.kind = "Added" /\ fail = "none" => next_session_id < caps.sessions
       /\ IF fail = "none"
          THEN /\ sessions' = IF must_unpause THEN EngineUnpause(r.sessions, r.id)
                                              ELSE r.sessions
               /\ next_session_id' = r.next
               /\ torrents' = [torrents EXCEPT ![handle_id].session_id = Some(r.id)]
               /\ last' = Called("prepare_stream", handle_id, "ok",
                                 IF r.kind = "Added" THEN "added" ELSE "already_managed")
          ELSE /\ UNCHANGED <<sessions, next_session_id, torrents>>
               /\ last' = Called("prepare_stream", handle_id, "err", fail)

\* prepare_stream(handle_id, file_index).  fail names the engine call that fails, if any.
PrepareStream(handle_id, file_index, fail) ==
    /\ IF handle_id \notin DOMAIN torrents
       THEN /\ fail = "none"
            /\ file_index = 0
            /\ UNCHANGED <<torrents, sessions, next_session_id, torrent_cache>>
            /\ last' = Called("prepare_stream", handle_id, "err", "handle_not_found")
       ELSE LET cached_session_id == FindCached(torrent_cache, handle_id)
            IN IF IsSome(cached_session_id)
               THEN LET session_id == Unwrap(cached_session_id)
                        cache1 == RetainOthers(torrent_cache, handle_id)
                    IN IF IsSome(SessionGet(sessions, session_id))
                       THEN /\ torrent_cache' = cache1
                            /\ fail \in {"none"} \cup
                                   (IF sessions[session_id].paused THEN {"unpause"} ELSE {})
                            /\ IF fail = "none"
                               THEN /\ sessions' = IF sessions[session_id].paused
                                                   THEN EngineUnpause(sessions, session_id)
                                                   ELSE sessions
                                    /\ torrents' = [torrents EXCEPT
                                                      ![handle_id].session_id = Some(session_id)]
                                    /\ last' = Called("prepare_stream", handle_id, "ok",
                                                      "resumed")
                               ELSE /\ UNCHANGED <<sessions, torrents>>
                                    /\ last' = Called("prepare_stream", handle_id, "err", fail)
                            /\ UNCHANGED next_session_id
                       ELSE PrepareFresh(handle_id, file_index, cache1, fail)
               ELSE PrepareFresh(handle_id, file_index, torrent_cache, fail)
    /\ UNCHANGED <<next_id, cache_file>>
    /\ Unchanged_media

\* save_cache_to_disk
SaveCacheToDisk(cache) == Some(Serialize(cache))

\* The caching branch of stop_stream, after pause and clear_torrent_files: retain,
\* insert at the front, enforce the limit.
CacheAndEvict(cache, sess, tor, ct, delete_fails) ==
    EnforceLimit(InsertFront(RetainDistinct(cache, ct.handle_id, ct.magnet_url), ct),
                 sess, tor, delete_fails)

\* stop_stream(handle_id, delete_files).  now is the clock reading taken for cached_at.
StopStream(handle_id, delete_files, fail, now) ==
    /\ IF handle_id \notin DOMAIN torrents \/ ~IsSome(torrents[handle_id].session_id)
       THEN /\ fail = "none" /\ now = 1
            /\ UNCHANGED <<torrents, sessions, torrent_cache, cache_file>>
            /\ last' = Called("stop_stream", handle_id, "ok", "noop")
       ELSE LET entry == torrents[handle_id]
                session_id == Unwrap(entry.session_id)
            IN IF delete_files
               THEN /\ now = 1
                    /\ fail \in {"none", "delete"}
                    /\ torrents' = [torrents EXCEPT ![handle_id].session_id = None]
                    /\ IF fail = "none" /\ session_id \in DOMAIN sessions
                       THEN /\ sessions' = EngineDelete(sessions, session_id)
                            /\ last' = Called("stop_stream", handle_id, "ok", "purged")
                       ELSE /\ UNCHANGED sessions
                            /\ last' = Called("stop_stream", handle_id, "err", "delete")
                    /\ UNCHANGED <<torrent_cache, cache_file>>
               ELSE LET known == IsSome(SessionGet(sessions, session_id))
                        paused == IF known THEN EnginePause(sessions, session_id) ELSE sessions
                        ct == CachedTorrent(handle_id, session_id, entry.magnet_url, now)
                        r == CacheAndEvict(torrent_cache, paused, torrents, ct, fail = "delete")
                    IN /\ fail \in {"none", "delete"} \cup
                                   (IF known THEN {"pause", "clear"} ELSE {})
                       /\ IF fail = "pause"
                          THEN /\ now = 1
                               /\ UNCHANGED <<torrents, sessions, torrent_cache, cache_file>>
                               /\ last' = Called("stop_stream", handle_id, "err", fail)
                          ELSE IF fail = "clear"
                          THEN /\ now = 1
                               /\ sessions' = paused
                               /\ UNCHANGED <<torrents, torrent_cache, cache_file>>
                               /\ last' = Called("stop_stream", handle_id, "err", fail)
                          ELSE /\ fail = "delete" => ~r.ok
                               /\ torrent_cache' = r.cache
                               /\ sessions' = r.sessions
                               /\ torrents' = r.torrents
                               /\ IF r.ok
                                  THEN /\ cache_file' = SaveCacheToDisk(r.cache)
                                       /\ last' = Called("stop_stream", handle_id, "ok",
                                              IF r.evicted = <<>> THEN "cached" ELSE "evicted")
                                  ELSE /\ UNCHANGED cache_file
                                       /\ last' = Called("stop_stream", handle_id, "err",
                                                         "delete")
    /\ UNCHANGED <<next_id, next_session_id>>
    /\ Unchanged_media

\* Mutant: a handle with no session is an error, as a session the engine lost is.
PauseOrResumeBoundOnly(op, handle_id, engine_ok, paused) ==
    /\ IF handle_id \notin DOMAIN torrents
       THEN /\ engine_ok
            /\ UNCHANGED sessions
            /\ last' = Called(op, handle_id, "err", "handle_not_found")
       ELSE IF ~IsSome(torrents[handle_id].session_id)
       THEN /\ engine_ok
            /\ UNCHANGED sessions
            /\ last' = Called(op, handle_id, "err", "session_not_found")
       ELSE LET session_id == Unwrap(torrents[handle_id].session_id)
            IN IF ~IsSome(SessionGet(sessions, session_id))
               THEN /\ engine_ok
                    /\ UNCHANGED sessions
                    /\ last' = Called(op, handle_id, "err", "session_not_found")
               ELSE IF engine_ok
               THEN /\ sessions' = [sessions EXCEPT ![session_id].paused = paused]
                    /\ last' = Called(op, handle_id, "ok", "engine")
               ELSE /\ UNCHANGED sessions
                    /\ last' = Called(op, handle_id, "err", "engine")
    /\ UNCHANGED <<torrents, next_id, next_session_id, torrent_cache, cache_file>>
    /\ Unchanged_media

\* pause_torrent / resume_torrent: session.pause or session.unpause on the handle's
\* session, which leaves it paused or not.
PauseOrResume(op, handle_id, engine_ok, paused) ==
    /\ IF handle_id \notin DOMAIN torrents
       THEN /\ engine_ok
            /\ UNCHANGED sessions
            /\ last' = Called(op, handle_id, "err", "handle_not_found")
       ELSE IF ~IsSome(torrents[handle_id].session_id)
       THEN /\ engine_ok
            /\ UNCHANGED sessions
            /\ last' = Called(op, handle_id, "ok", "noop")
       ELSE LET session_id == Unwrap(torrents[handle_id].session_id)
            IN IF ~IsSome(SessionGet(sessions, session_id))
               THEN /\ engine_ok
                    /\ UNCHANGED sessions
                    /\ last' = Called(op, handle_id, "err", "session_not_found")
               ELSE IF engine_ok
               THEN /\ sessions' = [sessions EXCEPT ![session_id].paused = paused]
                    /\ last' = Called(op, handle_id, "ok", "engine")
               ELSE /\ UNCHANGED sessions
                    /\ last' = Called(op, handle_id, "err", "engine")
    /\ UNCHANGED <<torrents, next_id, next_session_id, torrent_cache, cache_file>>
    /\ Unchanged_media

PauseTorrent(handle_id, engine_ok) ==
    PauseOrResume("pause_torrent", handle_id, engine_ok, TRUE)

ResumeTorrent(handle_id, engine_ok) ==
    PauseOrResume("resume_torrent", handle_id, engine_ok, FALSE)

\* Mutant: the files are deleted whatever delete_files is.
KeptNever(kept, id, delete_files) == kept

\* Session::delete(id, delete_files) and the files of the torrent: they stay on disk
\* when delete_files is false.
KeptAfterDelete(kept, id, delete_files) ==
    IF delete_files THEN kept ELSE kept \cup {id}

\* remove_torrent(handle_id, delete_files): the handle is forgotten first, then the
\* engine is asked to delete its session.
RemoveTorrent(handle_id, delete_files, engine_ok) ==
    /\ IF handle_id \notin DOMAIN torrents
       THEN /\ engine_ok /\ delete_files
            /\ UNCHANGED <<torrents, sessions, kept_files>>
            /\ last' = Called("remove_torrent", handle_id, "ok", "noop")
       ELSE LET entry == torrents[handle_id]
            IN /\ torrents' = Remove(torrents, handle_id)
               /\ IF ~IsSome(entry.session_id)
                  THEN /\ engine_ok /\ delete_files
                       /\ UNCHANGED <<sessions, kept_files>>
                       /\ last' = Called("remove_torrent", handle_id, "ok", "forgotten")
                  ELSE IF engine_ok /\ Unwrap(entry.session_id) \in DOMAIN sessions
                  THEN /\ sessions' = EngineDelete(sessions, Unwrap(entry.session_id))
                       /\ kept_files' = KeptAfterDelete(kept_files,
                                             Unwrap(entry.session_id), delete_files)
                       /\ last' = Called("remove_torrent", handle_id, "ok", "deleted")
                  ELSE /\ UNCHANGED <<sessions, kept_files>>
                       /\ last' = Called("remove_torrent", handle_id, "err", "delete")
    /\ UNCHANGED <<next_id, next_session_id, torrent_cache, cache_file>>
    /\ UNCHANGED <<transcode_states, metadata_cache, live_pipes, caps, observe,
                   transcoder, locks, pump, sampler, prober, applied, subtitles>>

HandleIds == 0 .. (MaxHandles - 1)
PrepareFailures == {"none", "add", "unpause"}
StopFailures == {"none", "pause", "clear", "delete"}

Next ==
    \/ \E u \in RegUris, ok \in BOOLEAN : AddTorrent(u, ok)
    \/ \E h \in HandleIds, f \in {0}, fail \in PrepareFailures :
           PrepareStream(h, f, fail)
    \/ \E h \in HandleIds, d \in BOOLEAN, fail \in StopFailures, now \in Times :
           StopStream(h, d, fail, now)
    \/ \E h \in HandleIds, ok \in BOOLEAN : PauseTorrent(h, ok)
    \/ \E h \in HandleIds, ok \in BOOLEAN : ResumeTorrent(h, ok)
    \/ \E h \in HandleIds, ok \in BOOLEAN : RemoveTorrent(h, TRUE, ok)

Spec == Init /\ [][Next]_vars

----------------------------------------------------------------------------
(* The eviction scenario: a client that registers, activates and caches one handle
   after another, every engine call succeeding.  The run starts with no cache file, or
   with the file of one entry that handle 0 of an earlier run left for source 1. *)

SeqInit ==
    \/ InitFrom(None, {}, FALSE, MaxSeqHandles, MaxSeqHandles)
    \/ InitFrom(Some(PreviousRunFile(1, 0)), {}, FALSE, MaxSeqHandles, MaxSeqHandles)

\* The sources of the scenario: the first two handles take source 1 or another one,
\* every later handle a source of its own.
SeqUris(handle_id) ==
    IF handle_id < 2 THEN {1, 2 * CacheLimit} ELSE {2 * CacheLimit + handle_id}

SeqAdd ==
    /\ next_id > 0 => /\ IsSome(torrents[next_id - 1].session_id)
                      /\ IsSome(FindCached(torrent_cache, next_id - 1))
    /\ \E u \in SeqUris(next_id) : AddTorrent(u, TRUE)

SeqPrepare ==
    /\ next_id > 0
    /\ ~IsSome(torrents[next_id - 1].session_id)
    /\ PrepareStream(next_id - 1, 0, "none")

SeqStop ==
    /\ next_id > 0
    /\ IsSome(torrents[next_id - 1].session_id)
    /\ ~IsSome(FindCached(torrent_cache, next_id - 1))
    /\ \E now \in Times : StopStream(next_id - 1, FALSE, "none", now)

SeqNext == SeqAdd \/ SeqPrepare \/ SeqStop

SpecSeq == SeqInit /\ [][SeqNext]_vars

----------------------------------------------------------------------------
(* Media Prober and Stream Status State Machine *)

BufferBytes == 2 * 1024 * 1024     \* "at least 2MB or finished"
MinProbeBytes == 10 * 1024 * 1024  \* "need at least 10MB"
TotalBytes == 12 * 1024 * 1024     \* stats.total_bytes of the torrents of the model

\* The files of a torrent of the model, by file index: a Matroska video and a file the
\* status poll extracts no metadata for.
FileExt(file_index) == IF file_index = 0 THEN "mkv" ELSE "webm"
PollIndices == FileIndices \cup {2}

\* An audio stream of ffprobe's JSON output: codec_name, codec_long_name, profile.
Stream(codec_name, codec_long_name, profile) ==
    [codec_name |-> codec_name, codec_long_name |-> codec_long_name, profile |-> profile]

\* Audio streams as ffprobe describes them.
AacStream == Stream("aac", "AAC (Advanced Audio Coding)", "LC")
FlacStream == Stream("flac", "FLAC (Free Lossless Audio Codec)", "")
Ac3Stream == Stream("ac3", "ATSC A/52A (AC-3)", "")

\* The audio streams ffprobe reports for the files of the model.
ProbedStreams == {<<AacStream>>, <<FlacStream, Ac3Stream>>}

\* Audio streams as ffprobe describes them: the codecs of the classifier's lists with
\* the long names and profiles of ffprobe's codec table, streams of a probe that
\* reports no long name, and streams whose codec_name is missing ("unknown") or is
\* one the classifier does not know.
FfprobeStreams ==
    {AacStream, FlacStream, Ac3Stream,
     Stream("mp3", "MP3 (MPEG audio layer 3)", ""),
     Stream("opus", "Opus (Opus Interactive Audio Codec)", ""),
     Stream("opus", "", ""),
     Stream("vorbis", "Vorbis", ""),
     Stream("eac3", "ATSC A/52B (AC-3, E-AC-3)", ""),
     Stream("dts", "DCA (DTS Coherent Acoustics)", "DTS-HD MA"),
     Stream("truehd", "TrueHD", ""),
     Stream("unknown", "", ""),
     Stream("speex", "Speex", "")}

\* Up to MaxStreams audio streams in one probe.
MaxStreams == 2
FfprobeOutputs ==
    UNION {[1 .. n -> FfprobeStreams] : n \in 1 .. MaxStreams}

UNSUPPORTED_AUDIO_CODECS ==
    {"truehd", "mlp", "pcm", "dsd", "dts", "dca", "dts-hd", "dtshd", "dts_hd", "dtse",
     "ac3", "eac3", "ac-3", "e-ac-3", "dolby", "atmos",
     "cook", "ra", "sipr", "wma", "wmav1", "wmav2", "wmapro"}

\* str::contains, str::starts_with and str::to_lowercase (on ASCII letters).
Contains(s, pattern) ==
    \E i \in 0 .. Len(s) - Len(pattern) : SubSeq(s, i + 1, i + Len(pattern)) = pattern
StartsWith(s, pattern) == Len(pattern) <= Len(s) /\ SubSeq(s, 1, Len(pattern)) = pattern
UpperLetters == "ABCDEFGHIJKLMNOPQRSTUVWXYZ"
LowerLetters == "abcdefghijklmnopqrstuvwxyz"
LowerChar(c) ==
    IF \E i \in 1 .. Len(UpperLetters) : SubSeq(UpperLetters, i, i) = c
    THEN LET i == CHOOSE j \in 1 .. Len(UpperLetters) : SubSeq(UpperLetters, j, j) = c
         IN SubSeq(LowerLetters, i, i)
    ELSE c
RECURSIVE ToLowercase(_)
ToLowercase(s) ==
    IF Len(s) = 0 THEN s
    ELSE LowerChar(SubSeq(s, 1, 1)) \o ToLowercase(SubSeq(s, 2, Len(s)))

IsAc3Variant(codec_lower, long_name_lower) ==
    \/ codec_lower \in {"ac3", "eac3", "ac-3", "e-ac-3"}
    \/ StartsWith(codec_lower, "ac3") \/ StartsWith(codec_lower, "eac3")
    \/ \E p \in {"ac-3", "ac3", "e-ac-3", "eac3", "dolby digital"} :
           Contains(long_name_lower, p)

IsKnownSupported(codec_lower, long_name_lower) ==
    /\ codec_lower \in {"aac", "mp3", "opus", "vorbis", "mp2", "mp1", "flac"}
    /\ ~Contains(long_name_lower, "truehd")
    /\ ~Contains(long_name_lower, "dts")
    /\ ~Contains(long_name_lower, "atmos")
    /\ ~IsAc3Variant(codec_lower, long_name_lower)

IsKnownUnsupported(codec_lower, long_name_lower, profile_lower) ==
    \/ IsAc3Variant(codec_lower, long_name_lower)
    \/ \E unsupported \in UNSUPPORTED_AUDIO_CODECS :
           \/ codec_lower = unsupported
           \/ Contains(codec_lower, unsupported)
           \/ Contains(long_name_lower, unsupported)
           \/ Contains(profile_lower, unsupported)

NeedsTranscoding(stream) ==
    LET codec_lower == ToLowercase(stream.codec_name)
        long_name_lower == ToLowercase(stream.codec_long_name)
        profile_lower == ToLowercase(stream.profile)
    IN \/ IsKnownUnsupported(codec_lower, long_name_lower, profile_lower)
       \/ ~IsKnownSupported(codec_lower, long_name_lower)

AudioTrack(index, stream) ==
    [index |-> index, codec |-> stream.codec_name,
     needs_transcoding |-> NeedsTranscoding(stream), transcoded_url |-> None]

\* extract_mkv_metadata_ffprobe, for the audio streams ffprobe reported.
ExtractMetadata(streams) ==
    LET audio_tracks == [i \in 1 .. Len(streams) |-> AudioTrack(i - 1, streams[i])]
    IN [audio_tracks |-> audio_tracks,
        needs_audio_transcoding |->
            \E i \in 1 .. Len(audio_tracks) : audio_tracks[i].needs_transcoding,
        transcoded_audio_url |-> None]

\* extract_mkv_metadata_ffprobe tabulated for the probes of the model.
ExtractedMetadata == [streams \in ProbedStreams |-> ExtractMetadata(streams)]

\* The engine fetches pieces and reports its stats: what handle.stats() and
\* handle.stream(file) answer from then on.
EngineProgress(session_id, progress_bytes, finished, streamable) ==
    /\ session_id \in DOMAIN sessions
    /\ sessions' = [sessions EXCEPT ![session_id].progress_bytes = progress_bytes,
                                    ![session_id].finished = finished,
                                    ![session_id].streamable = streamable]
    /\ UNCHANGED <<torrents, next_id, next_session_id, torrent_cache, cache_file,
                   transcode_states, metadata_cache, live_pipes, caps, observe, last,
                   task_vars>>

\* GET /torrents/{session_id}/metadata/{file_id}: total_read is what the sampling loop
\* read before it stopped, probe what ffprobe made of the sample.
GetFileMetadata(session_id, file_id, total_read, probe) ==
    /\ IF session_id \notin DOMAIN sessions \/ file_id \notin FileIndices
       THEN /\ last' = Called("get_file_metadata", session_id, "404", "not_found")
            /\ UNCHANGED metadata_cache
       ELSE IF ~sessions[session_id].streamable
       THEN /\ last' = Called("get_file_metadata", session_id, "500", "stream")
            /\ UNCHANGED metadata_cache
       ELSE IF total_read < MinProbeBytes
       THEN /\ last' = Called("get_file_metadata", session_id, "503", "not_enough_data")
            /\ UNCHANGED metadata_cache
       ELSE IF probe = None
       THEN /\ last' = Called("get_file_metadata", session_id, "500", "ffprobe")
            /\ UNCHANGED metadata_cache
       ELSE /\ metadata_cache' = Insert(metadata_cache, <<session_id, file_id>>,
                                        ExtractedMetadata[Unwrap(probe)])
            /\ last' = Called("get_file_metadata", session_id, "200", "cached")
    /\ UNCHANGED <<torrents, next_id, sessions, next_session_id, torrent_cache,
                   cache_file, transcode_states, live_pipes, caps, observe, task_vars>>

\* TranscodeState { progress, output_path, completed, error }, less the path.
TranscodeState(progress, completed, error) ==
    [progress |-> progress, completed |-> completed, error |-> error]

HasBufferAtLeast(progress_bytes, finished) == progress_bytes >= BufferBytes \/ finished
HasBuffer(progress_bytes, finished) == progress_bytes > BufferBytes \/ finished

TranscodeProgress(states, key) ==
    IF key \in DOMAIN states THEN Some(states[key].progress) ELSE None

TranscodeCompleted(states, key) ==
    IF key \in DOMAIN states THEN states[key].completed ELSE FALSE

TranscodeStreamingReadyWhenDone(transcode_progress, transcode_completed) ==
    IsSome(transcode_progress) /\ transcode_completed
TranscodeStreamingReady(transcode_progress, transcode_completed) ==
    IsSome(transcode_progress) /\ ~transcode_completed

\* The metadata a poll of a ready stream finds: probed from the file on disk when the
\* download is complete and the file is there, else read from the metadata cache.
\* on_disk is None when the file is missing, else what ffprobe makes of it.
StreamMetadata(session_id, file_index, stats, on_disk) ==
    IF FileExt(file_index) \notin {"mkv", "mp4", "avi", "mov"} THEN None
    ELSE IF stats.progress_bytes >= TotalBytes /\ TotalBytes > 0 /\ IsSome(on_disk)
    THEN Unwrap(on_disk)
    ELSE IF <<session_id, file_index>> \in DOMAIN metadata_cache
    THEN Some(metadata_cache[<<session_id, file_index>>])
    ELSE None

NeedsFromCache(session_id, file_index) ==
    /\ <<session_id, file_index>> \in DOMAIN metadata_cache
    /\ metadata_cache[<<session_id, file_index>>].needs_audio_transcoding

\* The transcoded URLs the poll that starts transcoding adds to the metadata.
WithTranscodedUrls(meta, session_id, file_index) ==
    [meta EXCEPT
        !.audio_tracks =
            [i \in 1 .. Len(meta.audio_tracks) |->
                IF meta.audio_tracks[i].needs_transcoding
                THEN [meta.audio_tracks[i] EXCEPT
                          !.transcoded_url = Some(<<session_id, file_index, i - 1>>)]
                ELSE meta.audio_tracks[i]],
        !.transcoded_audio_url =
            IF Len(meta.audio_tracks) > 0 /\ meta.audio_tracks[1].needs_transcoding
            THEN Some(<<session_id, file_index, 0>>)
            ELSE None]

StatusOf(is_ready, needs_audio_transcoding, transcode_streaming_ready) ==
    IF ~is_ready THEN "initializing"
    ELSE IF needs_audio_transcoding /\ ~transcode_streaming_ready THEN "transcoding"
    ELSE "ready"

StatusReply(handle_id, file_index, status, transcode_progress, metadata) ==
    IF observe
    THEN [op |-> "get_stream_status", handle_id |-> handle_id, res |-> "ok",
          path |-> status, n |-> 1 - last.n, file_index |-> file_index,
          transcode_progress |-> transcode_progress, metadata |-> metadata]
    ELSE last

\* TorrentManager::get_stream_status
GetStreamStatus(handle_id, file_index, on_disk) ==
    /\ IF handle_id \notin DOMAIN torrents
       THEN /\ last' = Called("get_stream_status", handle_id, "err", "handle_not_found")
            /\ UNCHANGED transcode_states
       ELSE IF ~IsSome(torrents[handle_id].session_id)
       THEN /\ last' = Called("get_stream_status", handle_id, "err", "not_yet_added")
            /\ UNCHANGED transcode_states
       ELSE IF ~IsSome(SessionGet(sessions, Unwrap(torrents[handle_id].session_id)))
       THEN /\ last' = Called("get_stream_status", handle_id, "err", "session_not_found")
            /\ UNCHANGED transcode_states
       ELSE IF file_index \notin FileIndices
       THEN /\ last' = Called("get_stream_status", handle_id, "err", "out_of_range")
            /\ UNCHANGED transcode_states
       ELSE LET session_id == Unwrap(torrents[handle_id].session_id)
                stats == sessions[session_id]
                key == <<session_id, file_index>>
                is_ready == stats.streamable
                            /\ HasBuffer(stats.progress_bytes, stats.finished)
                transcode_progress == TranscodeProgress(transcode_states, key)
                transcode_completed == TranscodeCompleted(transcode_states, key)
                found == IF is_ready
                         THEN StreamMetadata(session_id, file_index, stats, on_disk)
                         ELSE None
                needs_from_stream == IsSome(found)
                                     /\ Unwrap(found).needs_audio_transcoding
                starts == needs_from_stream /\ key \notin DOMAIN transcode_states
                metadata == IF starts
                            THEN Some(WithTranscodedUrls(Unwrap(found), session_id,
                                                         file_index))
                            ELSE found
                status == StatusOf(is_ready,
                                   needs_from_stream
                                   \/ NeedsFromCache(session_id, file_index),
                                   TranscodeStreamingReady(transcode_progress,
                                                           transcode_completed))
            IN /\ transcode_states' =
                      IF starts
                      THEN Insert(transcode_states, key,
                                  TranscodeState(0, FALSE, None))
                      ELSE transcode_states
               /\ last' = StatusReply(handle_id, file_index, status,
                                      transcode_progress, metadata)
    /\ UNCHANGED <<torrents, next_id, sessions, next_session_id, torrent_cache,
                   cache_file, metadata_cache, live_pipes, caps, observe, task_vars>>

\* GET /torrents/{session_id}/transcoded-audio-stream/{file_id}/{track_index}: the
\* transcoder is spawned on a fresh engine stream of the file.  spawn_ok: ffmpeg starts.
StreamTranscodedAudio(session_id, file_id, track_index, spawn_ok) ==
    /\ IF ~(/\ session_id \in DOMAIN sessions
            /\ file_id \in FileIndices
            /\ sessions[session_id].streamable)
       THEN /\ spawn_ok
            /\ UNCHANGED live_pipes
            /\ last' = Called("stream_transcoded_audio", session_id, "404", "no_stream")
       ELSE IF ~spawn_ok
       THEN /\ UNCHANGED live_pipes
            /\ last' = Called("stream_transcoded_audio", session_id, "500", "spawn")
       ELSE /\ live_pipes' = live_pipes \cup {<<session_id, file_id, track_index>>}
            /\ last' = Called("stream_transcoded_audio", session_id, "200", "piped")
    /\ UNCHANGED <<torrents, next_id, sessions, next_session_id, torrent_cache,
                   cache_file, transcode_states, metadata_cache, caps, observe,
                   task_vars>>

\* A run of one client that registers one source and plays its files, the replies of
\* every call observed.
StatusInit == InitFrom(None, {}, TRUE, 1, 1)

ProgressLevels == {BufferBytes, BufferBytes + 1, TotalBytes}
OnDisk == {None} \cup {Some(None)} \cup {Some(Some(ExtractMetadata(s))) : s \in ProbedStreams}

StatusNext ==
    \/ \E u \in {CacheLimit + 1} : AddTorrent(u, TRUE)
    \/ \E h \in {0}, f \in FileIndices : PrepareStream(h, f, "none")
    \/ \E h \in {0}, d \in BOOLEAN, now \in Times : StopStream(h, d, "none", now)
    \/ \E h \in {0} : RemoveTorrent(h, TRUE, TRUE)
    \/ \E s \in {0}, b \in ProgressLevels, fin \in BOOLEAN, st \in BOOLEAN :
           EngineProgress(s, b, fin, st)
    \/ \E s \in {0}, f \in FileIndices, n \in {0, MinProbeBytes},
          p \in {None} \cup {Some(x) : x \in ProbedStreams} :
           GetFileMetadata(s, f, n, p)
    \/ \E h \in {0}, f \in PollIndices, d \in OnDisk : GetStreamStatus(h, f, d)
    \/ \E s \in {0}, f \in FileIndices : StreamTranscodedAudio(s, f, 0, TRUE)

SpecStatus == StatusInit /\ [][StatusNext]_vars

----------------------------------------------------------------------------
(* Transcode to a file: transcode_audio_track.  torrent.rs holds no call of it; the
   actions below are the function as it is written, run once for a (session, file). *)

\* get_media_duration(..).unwrap_or(0.0), in seconds, and the values ffmpeg prints on
\* its out_time_ms= lines.
Durations == {0, 10}
OutTimes == {-1000000, 0, 5000000, 10000000, 20000000}

\* ((current_time / duration) * 100.0).min(99.0), in whole percent.
ProgressOf(time_ms, duration) ==
    IF duration > 0 THEN Min((time_ms * 100) \div (1000000 * duration), 99) ELSE 0

Unchanged_lifecycle ==
    UNCHANGED <<torrents, next_id, sessions, next_session_id, torrent_cache, cache_file,
                metadata_cache, live_pipes, caps, observe, last>>

\* The call up to the spawn of ffmpeg.
TranscodeAudioTrack(session_id, file_id, input_exists, duration, spawn_ok) ==
    LET key == <<session_id, file_id>>
    IN /\ key \notin DOMAIN transcoder
       /\ IF ~input_exists
          THEN /\ transcoder' = Insert(transcoder, key,
                                       [pc |-> "no_input", duration |-> duration])
               /\ UNCHANGED transcode_states
          ELSE /\ transcode_states' = Insert(transcode_states, key,
                                             TranscodeState(0, FALSE, None))
               /\ transcoder' = Insert(transcoder, key,
                                       [pc |-> IF spawn_ok THEN "reading"
                                               ELSE "spawn_failed",
                                        duration |-> duration])
       /\ Unchanged_lifecycle
       /\ UNCHANGED <<locks, pump, sampler, applied, prober, kept_files, subtitles>>

\* One out_time_ms= line of ffmpeg's progress output is read and parsed.
TranscodeProgressLine(session_id, file_id, time_ms) ==
    LET key == <<session_id, file_id>>
    IN /\ key \in DOMAIN transcoder
       /\ transcoder[key].pc = "reading"
       /\ transcode_states' =
              IF key \in DOMAIN transcode_states
              THEN [transcode_states EXCEPT
                        ![key].progress = ProgressOf(time_ms, transcoder[key].duration)]
              ELSE transcode_states
       /\ UNCHANGED transcoder
       /\ Unchanged_lifecycle
       /\ UNCHANGED <<locks, pump, sampler, applied, prober, kept_files, subtitles>>

\* ffmpeg's output ends and child.wait() returns: a success status, a failure status,
\* or an error of the wait itself.
TranscodeExit(session_id, file_id, outcome) ==
    LET key == <<session_id, file_id>>
    IN /\ key \in DOMAIN transcoder
       /\ transcoder[key].pc = "reading"
       /\ transcoder' = [transcoder EXCEPT ![key].pc = outcome]
       /\ transcode_states' =
              IF key \notin DOMAIN transcode_states \/ outcome = "wait_failed"
              THEN transcode_states
              ELSE IF outcome = "success"
              THEN [transcode_states EXCEPT ![key].progress = 100,
                                            ![key].completed = TRUE]
              ELSE [transcode_states EXCEPT
                        ![key].error = Some("FFmpeg transcoding failed")]
       /\ Unchanged_lifecycle
       /\ UNCHANGED <<locks, pump, sampler, applied, prober, kept_files, subtitles>>

TranscodeInit == InitFrom(None, {}, FALSE, 1, 1)

TranscodeNext ==
    \/ \E f \in FileIndices, e \in BOOLEAN, d \in Durations, ok \in BOOLEAN :
           TranscodeAudioTrack(0, f, e, d, ok)
    \/ \E f \in FileIndices, t \in OutTimes : TranscodeProgressLine(0, f, t)
    \/ \E f \in FileIndices, o \in {"success", "failure", "wait_failed"} :
           TranscodeExit(0, f, o)

SpecTranscode == TranscodeInit /\ [][TranscodeNext]_vars

----------------------------------------------------------------------------
(* Streaming HTTP surface: stream_file *)

\* u64 arithmetic, on words of Word values in place of 2^64: a subtraction or an
\* addition that leaves the range panics in a build with overflow checks and wraps
\* in one without.  Panic stands for the panicked request.
Word == 16
Panic == -1
SubU64(a, b, overflow_checks) ==
    IF a = Panic \/ b = Panic THEN Panic
    ELSE IF a >= b THEN a - b
    ELSE IF overflow_checks THEN Panic ELSE a - b + Word
AddU64(a, b, overflow_checks) ==
    IF a = Panic \/ b = Panic THEN Panic
    ELSE IF a + b < Word THEN a + b
    ELSE IF overflow_checks THEN Panic ELSE a + b - Word

\* The bytes of a file of the torrent, and the file sizes of the model.
FileContent(file_size) == [i \in 1 .. file_size |-> i]
FileSizes == 0 .. 3

\* A Range header: absent (None), or its text after "bytes=" split at '-' with each
\* part parsed as u64 (None: the part is missing, empty or no number); bytes is FALSE
\* when the text does not start with "bytes=".
RangeHeader(bytes, first, second) == [bytes |-> bytes, first |-> first, second |-> second]
RangeHeaders ==
    {None} \cup
    {Some(RangeHeader(b, f, e)) :
        b \in BOOLEAN,
        f \in {None} \cup {Some(n) : n \in 0 .. 3},
        e \in {None} \cup {Some(n) : n \in 0 .. 4}}

\* (start, end, status_code) of stream_file.
RangeOf(file_size, range, overflow_checks) ==
    LET last_byte == SubU64(file_size, 1, overflow_checks)
    IN IF IsSome(range) /\ Unwrap(range).bytes
       THEN LET r == Unwrap(range)
            IN [start |-> IF IsSome(r.first) THEN Unwrap(r.first) ELSE 0,
                end |-> IF last_byte = Panic THEN Panic
                        ELSE IF IsSome(r.second) THEN Min(Unwrap(r.second), last_byte)
                        ELSE last_byte,
                status_code |-> 206]
       ELSE [start |-> 0, end |-> last_byte, status_code |-> 200]

\* stream.take(content_length) after stream.seek(start): the body read to its end.
TakeFrom(content, start, content_length) ==
    SubSeq(content, start + 1, Min(Len(content), start + content_length))

\* The response of stream_file for a file the engine holds and streams.
StreamFileReply(file_size, range, overflow_checks, seek_ok) ==
    LET r == RangeOf(file_size, range, overflow_checks)
        content_length == AddU64(SubU64(r.end, r.start, overflow_checks), 1,
                                 overflow_checks)
    IN IF r.end = Panic THEN [status |-> Panic]
       ELSE IF r.start > 0 /\ ~seek_ok THEN [status |-> 500]
       ELSE IF content_length = Panic THEN [status |-> Panic]
       ELSE [status |-> r.status_code,
             content_length |-> content_length,
             content_range |-> IF r.status_code = 206
                               THEN Some(<<r.start, r.end, file_size>>)
                               ELSE None,
             body |-> TakeFrom(FileContent(file_size), r.start, content_length)]

\* GET /torrents/{session_id}/stream/{file_id} on a session the engine holds.
StreamFile(file_size, range, overflow_checks, seek_ok) ==
    /\ applied' = Some([op |-> "stream_file", file_size |-> file_size, range |-> range,
                        reply |-> StreamFileReply(file_size, range, overflow_checks,
                                                  seek_ok)])
    /\ Unchanged_lifecycle
    /\ UNCHANGED <<transcode_states, transcoder, locks, pump, sampler, prober,
                   kept_files, subtitles>>

RangeInit == InitFrom(None, {}, FALSE, 1, 1)

RangeNext ==
    \E n \in FileSizes, r \in RangeHeaders, c \in BOOLEAN, ok \in BOOLEAN :
        StreamFile(n, r, c, ok)

SpecRange == RangeInit /\ [][RangeNext]_vars

----------------------------------------------------------------------------
(* Codec classification *)

\* extract_mkv_metadata_ffprobe on ffprobe's output for a sample.
ExtractMkvMetadataFfprobe(streams) ==
    /\ applied' = Some([op |-> "extract_mkv_metadata_ffprobe", streams |-> streams,
                        metadata |-> ExtractMetadata(streams)])
    /\ Unchanged_lifecycle
    /\ UNCHANGED <<transcode_states, transcoder, locks, pump, sampler, prober,
                   kept_files, subtitles>>

CodecInit == InitFrom(None, {}, FALSE, 1, 1)

CodecNext == \E streams \in FfprobeOutputs : ExtractMkvMetadataFfprobe(streams)

SpecCodec == CodecInit /\ [][CodecNext]_vars

----------------------------------------------------------------------------
(* The manager's calls step by step: one action per stretch of a method between two
   awaits, with the guards of self.torrents and self.torrent_cache it holds. *)

\* RwLock::read and RwLock::write return when no conflicting guard is alive.
CanRead == locks.writer = None
CanWrite == locks.writer = None /\ locks.readers = {}
CacheFree == locks.cache_writer = None

At(t, op, pc) == locks.task[t].op = op /\ locks.task[t].pc = pc
Idle(t) == locks.task[t].pc = "idle"

\* The lock state after task t moved on.
Moved(t, task, readers, writer, cache_writer) ==
    [task |-> [locks.task EXCEPT ![t] = task], readers |-> readers, writer |-> writer,
     cache_writer |-> cache_writer, queue |-> locks.queue]

Unchanged_steps ==
    UNCHANGED <<transcode_states, metadata_cache, live_pipes, caps, observe, last,
                transcoder, pump, sampler, applied, prober, kept_files, subtitles>>

\* add_torrent calls in flight that have not taken their id yet.
Adding ==
    {t \in Tasks : locks.task[t].op = "add_torrent" /\ locks.task[t].pc # "insert"}

\* add_torrent: the list_only add is sent to the engine, no lock taken yet.
AddBegin(t, magnet_or_url) ==
    /\ Idle(t)
    /\ next_id + Cardinality(Adding) < caps.handles
    /\ locks' = Moved(t, Task("add_torrent", "listing", 0, magnet_or_url, None, None, "add"),
                      locks.readers, locks.writer, locks.cache_writer)
    /\ UNCHANGED <<torrents, next_id, sessions, next_session_id, torrent_cache, cache_file>>
    /\ Unchanged_steps

\* add_torrent: the engine answers.
AddListed(t, engine_ok) ==
    /\ At(t, "add_torrent", "listing")
    /\ locks' = Moved(t, IF engine_ok
                         THEN [locks.task[t] EXCEPT !.pc = "allocate", !.engine = "none"]
                         ELSE NoTask,
                      locks.readers, locks.writer, locks.cache_writer)
    /\ UNCHANGED <<torrents, next_id, sessions, next_session_id, torrent_cache, cache_file>>
    /\ Unchanged_steps

\* Mutant: the id is the number of handles registered.
AddAllocateByCount(t) ==
    /\ At(t, "add_torrent", "allocate")
    /\ locks' = Moved(t, [locks.task[t] EXCEPT !.pc = "insert",
                                               !.handle_id = Cardinality(DOMAIN torrents)],
                      locks.readers, locks.writer, locks.cache_writer)
    /\ next_id' = next_id + 1
    /\ UNCHANGED <<torrents, sessions, next_session_id, torrent_cache, cache_file>>
    /\ Unchanged_steps

\* add_torrent: the id is read and the counter incremented under the write guard of
\* next_id, which no call holds across an await.
AddAllocate(t) ==
    /\ At(t, "add_torrent", "allocate")
    /\ locks' = Moved(t, [locks.task[t] EXCEPT !.pc = "insert", !.handle_id = next_id],
                      locks.readers, locks.writer, locks.cache_writer)
    /\ next_id' = next_id + 1
    /\ UNCHANGED <<torrents, sessions, next_session_id, torrent_cache, cache_file>>
    /\ Unchanged_steps

\* add_torrent: the handle is stored under the write guard of the handle map.
AddInsert(t) ==
    /\ At(t, "add_torrent", "insert")
    /\ CanWrite
    /\ torrents' = Insert(torrents, locks.task[t].handle_id,
                          [magnet_url |-> locks.task[t].arg, session_id |-> None])
    /\ locks' = Moved(t, NoTask, locks.readers, locks.writer, locks.cache_writer)
    /\ UNCHANGED <<next_id, sessions, next_session_id, torrent_cache, cache_file>>
    /\ Unchanged_steps

\* prepare_stream: the read guard on the handle map is taken and the entry found.
PrepareBegin(t, handle_id, file_index) ==
    /\ Idle(t)
    /\ CanRead
    /\ handle_id \in DOMAIN torrents
    /\ locks' = Moved(t, Task("prepare_stream", "cache", handle_id, file_index, None, None,
                              "none"),
                      locks.readers \cup {t}, locks.writer, locks.cache_writer)
    /\ UNCHANGED <<torrents, next_id, sessions, next_session_id, torrent_cache, cache_file>>
    /\ Unchanged_steps

\* prepare_stream: the cache list is searched under its write guard, which is dropped
\* before the next await: the unpause of the cached session, the write guard on the
\* handle map, or the add of the source.
PrepareCache(t) ==
    /\ At(t, "prepare_stream", "cache")
    /\ CacheFree
    /\ LET me == locks.task[t]
           cached_session_id == FindCached(torrent_cache, me.handle_id)
           resumes == /\ IsSome(cached_session_id)
                      /\ IsSome(SessionGet(sessions, Unwrap(cached_session_id)))
       IN /\ torrent_cache' = IF IsSome(cached_session_id)
                              THEN RetainOthers(torrent_cache, me.handle_id)
                              ELSE torrent_cache
          /\ locks' =
                IF resumes /\ sessions[Unwrap(cached_session_id)].paused
                THEN Moved(t, [me EXCEPT !.pc = "unpausing", !.engine = "unpause",
                                         !.session_id = cached_session_id],
                           locks.readers, locks.writer, locks.cache_writer)
                ELSE IF resumes
                THEN Moved(t, [me EXCEPT !.pc = "relock", !.session_id = cached_session_id],
                           locks.readers \ {t}, locks.writer, locks.cache_writer)
                ELSE Moved(t, [me EXCEPT !.pc = "adding", !.engine = "add"],
                           locks.readers, locks.writer, locks.cache_writer)
    /\ UNCHANGED <<torrents, next_id, sessions, next_session_id, cache_file>>
    /\ Unchanged_steps

\* prepare_stream: session.add_torrent answers.
PrepareAdded(t, engine_ok) ==
    /\ At(t, "prepare_stream", "adding")
    /\ LET me == locks.task[t]
           r == EngineAdd(sessions, next_session_id, torrents[me.handle_id].magnet_url,
                          FALSE, Some(me.arg))
       IN IF ~engine_ok
          THEN /\ locks' = Moved(t, NoTask, locks.readers \ {t}, locks.writer,
                                 locks.cache_writer)
               /\ UNCHANGED <<sessions, next_session_id>>
          ELSE /\ r.kind = "Added" => next_session_id < caps.sessions
               /\ sessions' = r.sessions
               /\ next_session_id' = r.next
               /\ locks' =
                     IF r.kind = "AlreadyManaged" /\ r.sessions[r.id].paused
                     THEN Moved(t, [me EXCEPT !.pc = "unpausing", !.engine = "unpause",
                                              !.session_id = Some(r.id)],
                                locks.readers, locks.writer, locks.cache_writer)
                     ELSE Moved(t, [me EXCEPT !.pc = "relock", !.engine = "none",
                                              !.session_id = Some(r.id)],
                                locks.readers \ {t}, locks.writer, locks.cache_writer)
    /\ UNCHANGED <<torrents, next_id, torrent_cache, cache_file>>
    /\ Unchanged_steps

\* prepare_stream: session.unpause answers; the read guard is dropped.
PrepareUnpaused(t, engine_ok) ==
    /\ At(t, "prepare_stream", "unpausing")
    /\ LET me == locks.task[t]
           session_id == Unwrap(me.session_id)
       IN IF engine_ok /\ session_id \in DOMAIN sessions
          THEN /\ sessions' = EngineUnpause(sessions, session_id)
               /\ locks' = Moved(t, [me EXCEPT !.pc = "relock", !.engine = "none"],
                                 locks.readers \ {t}, locks.writer, locks.cache_writer)
          ELSE /\ UNCHANGED sessions
               /\ locks' = Moved(t, NoTask, locks.readers \ {t}, locks.writer,
                                 locks.cache_writer)
    /\ UNCHANGED <<torrents, next_id, next_session_id, torrent_cache, cache_file>>
    /\ Unchanged_steps

\* prepare_stream: the session id is bound under the write guard.
PrepareRelock(t) ==
    /\ At(t, "prepare_stream", "relock")
    /\ CanWrite
    /\ LET me == locks.task[t]
       IN torrents' = IF me.handle_id \in DOMAIN torrents
                      THEN [torrents EXCEPT ![me.handle_id].session_id = me.session_id]
                      ELSE torrents
    /\ locks' = Moved(t, NoTask, locks.readers, locks.writer, locks.cache_writer)
    /\ UNCHANGED <<next_id, sessions, next_session_id, torrent_cache, cache_file>>
    /\ Unchanged_steps

\* stop_stream: the write guard on the handle map is taken; the session is sent to
\* the engine for deletion or for pausing.
StopBegin(t, handle_id, delete_files) ==
    /\ Idle(t)
    /\ CanWrite
    /\ handle_id \in DOMAIN torrents
    /\ IsSome(torrents[handle_id].session_id)
    /\ LET session_id == torrents[handle_id].session_id
           me == Task("stop_stream", "caching", handle_id, 0, session_id, None, "none")
       IN /\ torrents' = IF delete_files
                         THEN [torrents EXCEPT ![handle_id].session_id = None]
                         ELSE torrents
          /\ locks' =
                Moved(t, IF delete_files
                         THEN [me EXCEPT !.pc = "deleting", !.engine = "delete"]
                         ELSE IF IsSome(SessionGet(sessions, Unwrap(session_id)))
                         THEN [me EXCEPT !.pc = "pausing", !.engine = "pause"]
                         ELSE me,
                      locks.readers, Some(t), locks.cache_writer)
    /\ UNCHANGED <<next_id, sessions, next_session_id, torrent_cache, cache_file>>
    /\ Unchanged_steps

\* stop_stream(_, true): session.delete answers.
StopDeleted(t, engine_ok) ==
    /\ At(t, "stop_stream", "deleting")
    /\ LET session_id == Unwrap(locks.task[t].session_id)
       IN sessions' = IF engine_ok /\ session_id \in DOMAIN sessions
                      THEN EngineDelete(sessions, session_id)
                      ELSE sessions
    /\ locks' = Moved(t, NoTask, locks.readers, None, locks.cache_writer)
    /\ UNCHANGED <<torrents, next_id, next_session_id, torrent_cache, cache_file>>
    /\ Unchanged_steps

\* stop_stream(_, false): session.pause answers.
StopPaused(t, engine_ok) ==
    /\ At(t, "stop_stream", "pausing")
    /\ LET me == locks.task[t]
       IN IF engine_ok
          THEN /\ sessions' = EnginePause(sessions, Unwrap(me.session_id))
               /\ locks' = Moved(t, [me EXCEPT !.pc = "clearing", !.engine = "none"],
                                 locks.readers, locks.writer, locks.cache_writer)
          ELSE /\ UNCHANGED sessions
               /\ locks' = Moved(t, NoTask, locks.readers, None, locks.cache_writer)
    /\ UNCHANGED <<torrents, next_id, next_session_id, torrent_cache, cache_file>>
    /\ Unchanged_steps

\* stop_stream(_, false): clear_torrent_files returns.
StopCleared(t, clear_ok) ==
    /\ At(t, "stop_stream", "clearing")
    /\ locks' = IF clear_ok
                THEN Moved(t, [locks.task[t] EXCEPT !.pc = "caching"],
                           locks.readers, locks.writer, locks.cache_writer)
                ELSE Moved(t, NoTask, locks.readers, None, locks.cache_writer)
    /\ UNCHANGED <<torrents, next_id, sessions, next_session_id, torrent_cache, cache_file>>
    /\ Unchanged_steps

\* stop_stream(_, false): the write guard on the cache list is taken and the entry put
\* at the front; over the limit the oldest entry is popped and its session sent to the
\* engine for deletion, else the guard is dropped.
StopCache(t, now) ==
    /\ At(t, "stop_stream", "caching")
    /\ CacheFree
    /\ LET me == locks.task[t]
           entry == torrents[me.handle_id]
           ct == CachedTorrent(me.handle_id, Unwrap(me.session_id), entry.magnet_url, now)
           cache == InsertFront(RetainDistinct(torrent_cache, me.handle_id,
                                               entry.magnet_url), ct)
       IN IF OverLimit(cache)
          THEN /\ torrent_cache' = PopOldest(cache)
               /\ locks' = Moved(t, [me EXCEPT !.pc = "evicting", !.engine = "delete",
                                               !.oldest = Some(Oldest(cache))],
                                 locks.readers, locks.writer, Some(t))
          ELSE /\ torrent_cache' = cache
               /\ locks' = Moved(t, [me EXCEPT !.pc = "saving"],
                                 locks.readers, locks.writer, locks.cache_writer)
    /\ UNCHANGED <<torrents, next_id, sessions, next_session_id, cache_file>>
    /\ Unchanged_steps

\* stop_stream(_, false): session.delete of the evicted session answers; the loop goes
\* on while the list is over the limit, then the guard on the cache list is dropped.
StopEvicted(t, engine_ok) ==
    /\ At(t, "stop_stream", "evicting")
    /\ LET me == locks.task[t]
           oldest == Unwrap(me.oldest)
       IN IF engine_ok /\ oldest.session_id \in DOMAIN sessions
          THEN /\ sessions' = EngineDelete(sessions, oldest.session_id)
               /\ torrents' = ClearSession(torrents, oldest.handle_id)
               /\ IF OverLimit(torrent_cache)
                  THEN /\ torrent_cache' = PopOldest(torrent_cache)
                       /\ locks' = Moved(t, [me EXCEPT !.oldest = Some(Oldest(torrent_cache))],
                                         locks.readers, locks.writer, locks.cache_writer)
                  ELSE /\ UNCHANGED torrent_cache
                       /\ locks' = Moved(t, [me EXCEPT !.pc = "saving", !.engine = "none"],
                                         locks.readers, locks.writer, None)
          ELSE /\ UNCHANGED <<sessions, torrents, torrent_cache>>
               /\ locks' = Moved(t, NoTask, locks.readers, None, None)
    /\ UNCHANGED <<next_id, next_session_id, cache_file>>
    /\ Unchanged_steps

\* stop_stream(_, false): save_cache_to_disk under a read guard on the cache list;
\* the method returns and the write guard on the handle map is dropped.
StopSave(t) ==
    /\ At(t, "stop_stream", "saving")
    /\ CacheFree
    /\ cache_file' = SaveCacheToDisk(torrent_cache)
    /\ locks' = Moved(t, NoTask, locks.readers, None, locks.cache_writer)
    /\ UNCHANGED <<torrents, next_id, sessions, next_session_id, torrent_cache>>
    /\ Unchanged_steps

\* pause_torrent / resume_torrent: the read guard is taken and the session sent to
\* the engine.
PauseResumeBegin(t, op, handle_id) ==
    /\ Idle(t)
    /\ CanRead
    /\ handle_id \in DOMAIN torrents
    /\ IsSome(torrents[handle_id].session_id)
    /\ IsSome(SessionGet(sessions, Unwrap(torrents[handle_id].session_id)))
    /\ locks' = Moved(t, Task(op, "engine", handle_id, 0, torrents[handle_id].session_id,
                              None, IF op = "pause_torrent" THEN "pause" ELSE "unpause"),
                      locks.readers \cup {t}, locks.writer, locks.cache_writer)
    /\ UNCHANGED <<torrents, next_id, sessions, next_session_id, torrent_cache, cache_file>>
    /\ Unchanged_steps

\* pause_torrent / resume_torrent: the engine answers; the read guard is dropped.
PauseResumeDone(t, engine_ok) ==
    /\ locks.task[t].op \in {"pause_torrent", "resume_torrent"}
    /\ locks.task[t].pc = "engine"
    /\ LET me == locks.task[t]
           session_id == Unwrap(me.session_id)
       IN sessions' = IF engine_ok /\ session_id \in DOMAIN sessions
                      THEN [sessions EXCEPT ![session_id].paused = (me.op = "pause_torrent")]
                      ELSE sessions
    /\ locks' = Moved(t, NoTask, locks.readers \ {t}, locks.writer, locks.cache_writer)
    /\ UNCHANGED <<torrents, next_id, next_session_id, torrent_cache, cache_file>>
    /\ Unchanged_steps

\* remove_torrent: the write guard is taken, the handle forgotten and its session, if
\* any, sent to the engine for deletion.
RemoveBegin(t, handle_id) ==
    /\ Idle(t)
    /\ CanWrite
    /\ handle_id \in DOMAIN torrents
    /\ torrents' = Remove(torrents, handle_id)
    /\ locks' = IF IsSome(torrents[handle_id].session_id)
                THEN Moved(t, Task("remove_torrent", "deleting", handle_id, 0,
                                   torrents[handle_id].session_id, None, "delete"),
                           locks.readers, Some(t), locks.cache_writer)
                ELSE locks
    /\ UNCHANGED <<next_id, sessions, next_session_id, torrent_cache, cache_file>>
    /\ Unchanged_steps

\* remove_torrent: session.delete answers; the write guard is dropped.
RemoveDone(t, engine_ok) ==
    /\ At(t, "remove_torrent", "deleting")
    /\ LET session_id == Unwrap(locks.task[t].session_id)
       IN sessions' = IF engine_ok /\ session_id \in DOMAIN sessions
                      THEN EngineDelete(sessions, session_id)
                      ELSE sessions
    /\ locks' = Moved(t, NoTask, locks.readers, None, locks.cache_writer)
    /\ UNCHANGED <<torrents, next_id, next_session_id, torrent_cache, cache_file>>
    /\ Unchanged_steps

\* Two tasks calling the manager for the handles of one run, after a first start or a
\* start that finds the file of a full cache.
MaxStepHandles == 2
StepHandleIds == 0 .. (MaxStepHandles - 1)

StepInit ==
    \/ InitFrom(None, {}, FALSE, MaxStepHandles, MaxStepHandles)
    \/ InitFrom(Some(PreviousRunFile(CacheLimit, MaxStepHandles)), {}, FALSE,
                MaxStepHandles, MaxStepHandles)

StepNext ==
    \E t \in Tasks :
        \/ \E u \in {CacheLimit + 1} : AddBegin(t, u)
        \/ \E ok \in BOOLEAN : AddListed(t, ok)
        \/ AddAllocate(t)
        \/ AddInsert(t)
        \/ \E h \in StepHandleIds, f \in {0} : PrepareBegin(t, h, f)
        \/ PrepareCache(t)
        \/ \E ok \in BOOLEAN : PrepareAdded(t, ok)
        \/ \E ok \in BOOLEAN : PrepareUnpaused(t, ok)
        \/ PrepareRelock(t)
        \/ \E h \in StepHandleIds, d \in BOOLEAN : StopBegin(t, h, d)
        \/ \E ok \in BOOLEAN : StopDeleted(t, ok)
        \/ \E ok \in BOOLEAN : StopPaused(t, ok)
        \/ \E ok \in BOOLEAN : StopCleared(t, ok)
        \/ \E now \in Times : StopCache(t, now)
        \/ \E ok \in BOOLEAN : StopEvicted(t, ok)
        \/ StopSave(t)
        \/ \E op \in {"pause_torrent", "resume_torrent"}, h \in StepHandleIds :
               PauseResumeBegin(t, op, h)
        \/ \E ok \in BOOLEAN : PauseResumeDone(t, ok)
        \/ \E h \in StepHandleIds : RemoveBegin(t, h)
        \/ \E ok \in BOOLEAN : RemoveDone(t, ok)

SpecSteps == StepInit /\ [][StepNext]_vars

----------------------------------------------------------------------------
(* Live transcode: stream_transcoded_audio, its byte pump, the transcoder process and
   the client that reads the response body *)

SourceLen == 3       \* bytes of the engine stream of the file
MaxChunk == 2        \* bytes one read returns at most (the 256KB buffer)
PipeCapacity == 2    \* bytes the pipe to the transcoder's stdin holds
StdoutCapacity == 1  \* units of output the pipe from the transcoder's stdout holds

SourceBytes == FileContent(SourceLen)

\* The request, its pump task, the transcoder and the client.
LivePipe(handler, pc, child) ==
    [handler |-> handler,     \* "spawned": tasks spawned, response not yet returned
     pc |-> pc,               \* the pump: "reading", "writing", "done"
     read |-> 0,              \* bytes the pump has read from the engine stream
     buffer |-> <<>>,         \* &buffer[..n] not yet written by write_all
     stdin |-> <<>>,          \* the bytes written to the transcoder's stdin
     stdin_open |-> child = "running",
     stop |-> "none",         \* why the loop was left
     child |-> child,         \* the transcoder process: "running", "exited"
     consumed |-> 0,          \* bytes the transcoder has read from its stdin
     pending |-> 0,           \* output the transcoder has yet to write
     stdout |-> 0,            \* output in the pipe to the response body
     client |-> "waiting",    \* "connected" once the response is returned, then "gone"
     received |-> 0]

Unchanged_pipe ==
    /\ Unchanged_lifecycle
    /\ UNCHANGED <<transcode_states, transcoder, locks, sampler, applied, prober, kept_files,
                subtitles>>

\* Mutant: write_all leaves out the first byte of the chunk.
WriteAllButFirst(stdin, chunk) == stdin \o Tail(chunk)

\* stdin.write_all(&buffer[..n]), for the part of the chunk the pipe takes.
WriteAll(stdin, chunk) == stdin \o chunk

\* The handler up to the two tokio::spawn calls: 404 without an engine stream, 500
\* when ffmpeg does not start.
StreamTranscodedAudioLive(stream_ok, spawn_ok) ==
    /\ pump = None
    /\ pump' = Some(IF ~stream_ok THEN LivePipe("404", "none", "none")
                    ELSE IF ~spawn_ok THEN LivePipe("500", "none", "none")
                    ELSE LivePipe("spawned", "reading", "running"))
    /\ Unchanged_pipe

\* The handler returns the response whose body reads the transcoder's stdout.
HandlerRespond ==
    /\ IsSome(pump)
    /\ Unwrap(pump).handler = "spawned"
    /\ pump' = Some([Unwrap(pump) EXCEPT !.handler = "responded", !.client = "connected"])
    /\ Unchanged_pipe

\* The pump leaves its loop and drops stdin.
Break(p, reason) ==
    [p EXCEPT !.pc = "done", !.stop = reason, !.stdin_open = FALSE, !.buffer = <<>>]

\* torrent_stream.read(&mut buffer) returns: n bytes, end of stream, or an error.
PumpRead(outcome, n) ==
    /\ IsSome(pump)
    /\ Unwrap(pump).pc = "reading"
    /\ LET p == Unwrap(pump)
       IN CASE outcome = "data" ->
                 /\ n \in 1 .. Min(MaxChunk, SourceLen - p.read)
                 /\ pump' = Some([p EXCEPT !.pc = "writing", !.read = p.read + n,
                                           !.buffer = SubSeq(SourceBytes, p.read + 1,
                                                             p.read + n)])
            [] outcome = "eof" ->
                 /\ n = 0
                 /\ p.read = SourceLen
                 /\ pump' = Some(Break(p, "eof"))
            [] outcome = "error" ->
                 /\ n = 0
                 /\ pump' = Some(Break(p, "read_error"))
    /\ Unchanged_pipe

\* stdin.write_all: the pipe takes what it has room for while the transcoder runs; the
\* write fails once the transcoder has exited.
PumpWrite ==
    /\ IsSome(pump)
    /\ Unwrap(pump).pc = "writing"
    /\ LET p == Unwrap(pump)
           room == PipeCapacity - (Len(p.stdin) - p.consumed)
           k == Min(Len(p.buffer), room)
       IN IF p.child = "running"
          THEN /\ k > 0
               /\ pump' = Some([p EXCEPT
                                  !.stdin = WriteAll(p.stdin, SubSeq(p.buffer, 1, k)),
                                  !.buffer = SubSeq(p.buffer, k + 1, Len(p.buffer)),
                                  !.pc = IF k = Len(p.buffer) THEN "reading" ELSE "writing"])
          ELSE pump' = Some(Break(p, "write_error"))
    /\ Unchanged_pipe

\* ffmpeg reads from pipe:0 and has output to write.
FfmpegConsume ==
    /\ IsSome(pump)
    /\ LET p == Unwrap(pump)
       IN /\ p.child = "running"
          /\ p.consumed < Len(p.stdin)
          /\ p.pending = 0
          /\ pump' = Some([p EXCEPT !.consumed = p.consumed + 1, !.pending = 1])
    /\ Unchanged_pipe

\* ffmpeg writes to pipe:1: into the pipe while its read end is open, else the write
\* fails with a broken pipe and ffmpeg exits.
FfmpegWrite ==
    /\ IsSome(pump)
    /\ LET p == Unwrap(pump)
       IN /\ p.child = "running"
          /\ p.pending > 0
          /\ IF p.client = "gone"
             THEN pump' = Some([p EXCEPT !.child = "exited", !.pending = 0])
             ELSE /\ p.stdout < StdoutCapacity
                  /\ pump' = Some([p EXCEPT !.stdout = p.stdout + 1, !.pending = 0])
    /\ Unchanged_pipe

\* ffmpeg reaches the end of its input and exits.
FfmpegEnd ==
    /\ IsSome(pump)
    /\ LET p == Unwrap(pump)
       IN /\ p.child = "running"
          /\ ~p.stdin_open
          /\ p.consumed = Len(p.stdin)
          /\ p.pending = 0
          /\ pump' = Some([p EXCEPT !.child = "exited"])
    /\ Unchanged_pipe

\* ffmpeg gives up on its input and exits.
FfmpegFail ==
    /\ IsSome(pump)
    /\ Unwrap(pump).child = "running"
    /\ pump' = Some([Unwrap(pump) EXCEPT !.child = "exited", !.pending = 0])
    /\ Unchanged_pipe

\* The client reads the response body.
ClientReceive ==
    /\ IsSome(pump)
    /\ LET p == Unwrap(pump)
       IN /\ p.client = "connected"
          /\ p.stdout > 0
          /\ pump' = Some([p EXCEPT !.stdout = p.stdout - 1, !.received = p.received + 1])
    /\ Unchanged_pipe

\* The client disconnects: the response body is dropped, and with it the read end of
\* the transcoder's stdout.
ClientDisconnect ==
    /\ IsSome(pump)
    /\ Unwrap(pump).client = "connected"
    /\ pump' = Some([Unwrap(pump) EXCEPT !.client = "gone", !.stdout = 0])
    /\ Unchanged_pipe

PumpInit == InitFrom(None, {}, FALSE, 1, 1)

PumpNext ==
    \/ \E stream_ok \in BOOLEAN, spawn_ok \in BOOLEAN :
           StreamTranscodedAudioLive(stream_ok, spawn_ok)
    \/ HandlerRespond
    \/ \E outcome \in {"data", "eof", "error"}, n \in 0 .. MaxChunk : PumpRead(outcome, n)
    \/ PumpWrite
    \/ FfmpegConsume
    \/ FfmpegWrite
    \/ FfmpegEnd
    \/ FfmpegFail
    \/ ClientReceive
    \/ ClientDisconnect

SpecPump == PumpInit /\ [][PumpNext]_vars

\* The runtime runs a spawned task that can move, and the operating system a process
\* that can move; the handler returns.  When a read of the engine stream returns is
\* up to the swarm.
SpecPumpFair ==
    /\ SpecPump
    /\ WF_vars(HandlerRespond)
    /\ WF_vars(PumpWrite)
    /\ WF_vars(FfmpegConsume)
    /\ WF_vars(FfmpegWrite)
    /\ WF_vars(FfmpegEnd)

----------------------------------------------------------------------------
(* Media Prober: the sampling loop of get_file_metadata *)

SampleLimit == 100 * 1024 * 1024   \* "Up to 100MB"
chunk_size == 1024 * 1024          \* "1MB chunks"
max_empty_reads == 150             \* "Allow up to 150 empty reads"

\* The file sizes of the model: an empty file, a file shorter than the limit, a file
\* longer than it.
SampledSizes == {0, 3 * chunk_size, SampleLimit + chunk_size}

\* The byte counts a read returns: a full buffer or half of one.
ReadSizes == {chunk_size \div 2, chunk_size}

\* Mutant: the loop gives up one empty read later.
TooManyEmptyReadsOffByOne(consecutive_empty_reads) ==
    consecutive_empty_reads > max_empty_reads

\* if consecutive_empty_reads >= max_empty_reads { break }
TooManyEmptyReads(consecutive_empty_reads) ==
    consecutive_empty_reads >= max_empty_reads

\* The loop at "while total_read < max_size": in its body, or left with everything
\* sampled.
AtLoopHead(s) ==
    IF s.total_read < s.max_size THEN s ELSE [s EXCEPT !.pc = "done", !.stop = "sampled"]

Unchanged_sampling ==
    /\ Unchanged_lifecycle
    /\ UNCHANGED <<transcode_states, transcoder, locks, pump, applied, prober,
                   kept_files, subtitles>>

\* get_file_metadata, from the stream and the temp file it opens to the first test of
\* the loop.
SampleBegin(file_size) ==
    /\ sampler = None
    /\ sampler' = Some(AtLoopHead([file_size |-> file_size,
                                   max_size |-> Min(file_size, SampleLimit),
                                   total_read |-> 0,
                                   consecutive_empty_reads |-> 0,
                                   last_read |-> "none",
                                   pc |-> "loop",
                                   stop |-> "none",
                                   reply |-> "none"]))
    /\ Unchanged_sampling

\* One turn of the loop: stream.read returns nothing (count, give up or sleep and go
\* on), n bytes (reset the count, append to the temp file, add up), or an error.
SampleRead(outcome, n, write_ok) ==
    /\ IsSome(sampler)
    /\ Unwrap(sampler).pc = "loop"
    /\ LET s == Unwrap(sampler)
       IN CASE outcome = "empty" ->
                 /\ n = 0 /\ write_ok
                 /\ LET c == s.consecutive_empty_reads + 1
                        r == [s EXCEPT !.consecutive_empty_reads = c, !.last_read = "empty"]
                    IN sampler' = Some(IF TooManyEmptyReads(c)
                                       THEN [r EXCEPT !.pc = "done", !.stop = "empty_reads"]
                                       ELSE AtLoopHead(r))
            [] outcome = "data" ->
                 /\ n \in ReadSizes
                 /\ n <= s.file_size - s.total_read
                 /\ LET r == [s EXCEPT !.consecutive_empty_reads = 0, !.last_read = "data"]
                    IN sampler' = Some(IF write_ok
                                       THEN AtLoopHead([r EXCEPT !.total_read = s.total_read + n])
                                       ELSE [r EXCEPT !.pc = "done", !.stop = "write_error"])
            [] outcome = "error" ->
                 /\ n = 0 /\ write_ok
                 /\ sampler' = Some([s EXCEPT !.last_read = "error", !.pc = "done",
                                              !.stop = "read_error"])
    /\ Unchanged_sampling

SampleTurn == \E outcome \in {"empty", "data", "error"}, n \in {0} \cup ReadSizes,
             write_ok \in BOOLEAN : SampleRead(outcome, n, write_ok)

\* get_file_metadata after the loop: with less than 10 MB in the temp file it
\* answers 503, else it goes on to sync the file and run ffprobe.
SampleCheck ==
    /\ IsSome(sampler)
    /\ Unwrap(sampler).pc = "done"
    /\ Unwrap(sampler).stop \in {"sampled", "empty_reads"}
    /\ sampler' = Some([Unwrap(sampler) EXCEPT
                           !.pc = "checked",
                           !.reply = IF Unwrap(sampler).total_read < MinProbeBytes
                                     THEN "503" ELSE "probing"])
    /\ Unchanged_sampling

SampleInit == InitFrom(None, {}, FALSE, 1, 1)

SampleNext ==
    \/ \E file_size \in SampledSizes : SampleBegin(file_size)
    \/ SampleTurn
    \/ SampleCheck

\* Every read of the engine stream, and the sleep after an empty one, returns.
SpecSample == SampleInit /\ [][SampleNext]_vars /\ WF_vars(SampleTurn)

----------------------------------------------------------------------------
(* The streaming endpoints and their failure replies *)

\* handle.stream(file_id): the engine opens the byte stream of a file it has.
StreamOpens(session_id, file_id) ==
    file_id \in FileIndices /\ sessions[session_id].streamable

\* GET /torrents/{session_id}/stream/{file_id}
StreamFileRequest(session_id, file_id, file_size, range, overflow_checks, seek_ok) ==
    /\ IF session_id \notin DOMAIN sessions
       THEN last' = Called("stream_file", session_id, "404", "torrent_not_found")
       ELSE IF file_id \notin FileIndices
       THEN last' = Called("stream_file", session_id, "404", "file_not_found")
       ELSE IF ~StreamOpens(session_id, file_id)
       THEN last' = Called("stream_file", session_id, "500", "stream")
       ELSE LET reply == StreamFileReply(file_size, range, overflow_checks, seek_ok)
            IN last' = Called("stream_file", session_id,
                              CASE reply.status = Panic -> "panic"
                                [] reply.status = 500 -> "500"
                                [] reply.status = 206 -> "206"
                                [] OTHER -> "200",
                              "streamed")
    /\ UNCHANGED <<torrents, next_id, sessions, next_session_id, torrent_cache,
                   cache_file, transcode_states, metadata_cache, live_pipes, caps,
                   observe, task_vars>>

\* The ways get_subtitle_track fails after the stream is open.
SubtitleFailures == {"none", "create", "write", "run", "exit"}

\* GET /torrents/{session_id}/subtitles/{file_id}/{track_index}: the file is copied to
\* a scratch file and ffmpeg extracts the track from it.
GetSubtitleTrack(session_id, file_id, track_index, fail) ==
    /\ IF session_id \notin DOMAIN sessions
       THEN /\ fail = "none"
            /\ last' = Called("get_subtitle_track", session_id, "404", "torrent_not_found")
       ELSE IF ~StreamOpens(session_id, file_id)
       THEN /\ fail = "none"
            /\ last' = Called("get_subtitle_track", session_id, "500", "stream")
       ELSE IF fail # "none"
       THEN last' = Called("get_subtitle_track", session_id, "500", fail)
       ELSE last' = Called("get_subtitle_track", session_id, "200", "extracted")
    /\ UNCHANGED <<torrents, next_id, sessions, next_session_id, torrent_cache,
                   cache_file, transcode_states, metadata_cache, live_pipes, caps,
                   observe, task_vars>>

\* The sessions and files the requests name: one more than there are.
RequestSessions == {0, 1}
RequestFiles == PollIndices

\* A client that registers and activates one source and calls the endpoints, the
\* replies observed.
HttpInit == InitFrom(None, {}, TRUE, 1, 1)

HttpNext ==
    \/ \E u \in {CacheLimit + 1} : AddTorrent(u, TRUE)
    \/ \E h \in {0} : PrepareStream(h, 0, "none")
    \/ \E s \in {0}, b \in {0, TotalBytes}, st \in BOOLEAN : EngineProgress(s, b, b > 0, st)
    \/ \E s \in RequestSessions, f \in RequestFiles, n \in FileSizes, c \in BOOLEAN :
           StreamFileRequest(s, f, n, None, c, TRUE)
    \/ \E s \in RequestSessions, f \in RequestFiles, n \in {0, MinProbeBytes},
          p \in {None} \cup {Some(x) : x \in ProbedStreams} :
           GetFileMetadata(s, f, n, p)
    \/ \E s \in RequestSessions, f \in RequestFiles, fail \in SubtitleFailures :
           GetSubtitleTrack(s, f, 0, fail)
    \/ \E s \in RequestSessions, f \in RequestFiles, ok \in BOOLEAN :
           StreamTranscodedAudio(s, f, 0, ok)

SpecHttp == HttpInit /\ [][HttpNext]_vars

----------------------------------------------------------------------------
(* The scratch file of a metadata request *)

\* temp_dir/magnolia_metadata_{session_id}_{file_id}.mkv
TempFilePath(session_id, file_id) == <<session_id, file_id>>

\* Mutant: the file is left where it is.
RemoveFileSkipped(files, path) == files

\* tokio::fs::remove_file(&temp_file_path): a path that is not there is no error the
\* handler looks at.
RemoveFile(files, path) == files \ {path}

\* What stops the handler between the creation of the scratch file and ffprobe.
ProbeFailures == {"none", "read", "write", "sync"}

Unchanged_probe ==
    UNCHANGED <<torrents, next_id, sessions, next_session_id, torrent_cache,
                cache_file, transcode_states, live_pipes, caps, observe,
                transcoder, locks, pump, sampler, applied, kept_files, subtitles>>

\* get_file_metadata up to the scratch file: the replies before it, then
\* File::create, which truncates a file of the same name.
ProbeBegin(t, session_id, file_id, create_ok) ==
    /\ prober.running[t] = None
    /\ IF session_id \notin DOMAIN sessions \/ file_id \notin FileIndices
       THEN /\ create_ok
            /\ last' = Called("get_file_metadata", session_id, "404", "not_found")
            /\ UNCHANGED prober
       ELSE IF ~StreamOpens(session_id, file_id)
       THEN /\ create_ok
            /\ last' = Called("get_file_metadata", session_id, "500", "stream")
            /\ UNCHANGED prober
       ELSE IF ~create_ok
       THEN /\ last' = Called("get_file_metadata", session_id, "500", "create")
            /\ UNCHANGED prober
       ELSE /\ prober' = [scratch |-> prober.scratch \cup {TempFilePath(session_id, file_id)},
                          running |-> [prober.running EXCEPT
                                          ![t] = Some([session_id |-> session_id,
                                                       file_id |-> file_id])]]
            /\ UNCHANGED last
    /\ UNCHANGED metadata_cache
    /\ Unchanged_probe

\* get_file_metadata from the sampling loop to its return.  fail is the step that
\* fails before ffprobe runs, total_read what the loop read, probe what ffprobe makes
\* of the sample; ffprobe opens the scratch file by its path.
ProbeFinish(t, fail, total_read, probe) ==
    /\ IsSome(prober.running[t])
    /\ LET session_id == Unwrap(prober.running[t]).session_id
           file_id == Unwrap(prober.running[t]).file_id
           path == TempFilePath(session_id, file_id)
           left == [scratch |-> RemoveFile(prober.scratch, path),
                    running |-> [prober.running EXCEPT ![t] = None]]
       IN IF fail \in {"read", "write"}
          THEN /\ last' = Called("get_file_metadata", session_id, "500", fail)
               /\ prober' = left
               /\ UNCHANGED metadata_cache
          ELSE IF total_read < MinProbeBytes
          THEN /\ last' = Called("get_file_metadata", session_id, "503", "not_enough_data")
               /\ prober' = left
               /\ UNCHANGED metadata_cache
          ELSE IF fail = "sync"
          THEN /\ last' = Called("get_file_metadata", session_id, "500", "sync")
               /\ prober' = left
               /\ UNCHANGED metadata_cache
          ELSE IF probe = None \/ path \notin prober.scratch
          THEN /\ last' = Called("get_file_metadata", session_id, "500", "ffprobe")
               /\ prober' = left
               /\ UNCHANGED metadata_cache
          ELSE /\ last' = Called("get_file_metadata", session_id, "200", "cached")
               /\ prober' = left
               /\ metadata_cache' = Insert(metadata_cache, <<session_id, file_id>>,
                                           ExtractedMetadata[Unwrap(probe)])
    /\ Unchanged_probe

\* Two metadata requests at a time against one activated source.
ProbeInit == InitFrom(None, {}, TRUE, 1, 1)

ProbeNext ==
    \/ \E u \in {CacheLimit + 1} : AddTorrent(u, TRUE)
    \/ \E h \in {0} : PrepareStream(h, 0, "none")
    \/ \E s \in {0}, b \in {0, TotalBytes}, st \in BOOLEAN : EngineProgress(s, b, b > 0, st)
    \/ \E t \in Tasks, s \in RequestSessions, f \in RequestFiles, ok \in BOOLEAN :
           ProbeBegin(t, s, f, ok)
    \/ \E t \in Tasks, fail \in ProbeFailures, n \in {0, MinProbeBytes},
          p \in {None} \cup {Some(x) : x \in ProbedStreams} :
           ProbeFinish(t, fail, n, p)

SpecProbe == ProbeInit /\ [][ProbeNext]_vars

----------------------------------------------------------------------------
(* Activation of handles that share sources and come back from the cache *)

\* Two handles registered for one source or two, activated on either file, cached and
\* activated again; the run starts with no cache file or with the file an earlier
\* run left for handle 0 and source 1.
\* Source 1 is the one of the cache file.
ActivateUris == {1, CacheLimit + 1}

ActivateInit ==
    \/ InitFrom(None, {}, TRUE, MaxHandles, MaxNewSessions)
    \/ InitFrom(Some(PreviousRunFile(1, 0)), {}, TRUE, MaxHandles, MaxNewSessions)

ActivateNext ==
    \/ \E u \in ActivateUris, ok \in BOOLEAN : AddTorrent(u, ok)
    \/ \E h \in HandleIds, f \in FileIndices, fail \in PrepareFailures :
           PrepareStream(h, f, fail)
    \/ \E h \in HandleIds, d \in BOOLEAN, now \in Times : StopStream(h, d, "none", now)
    \/ \E h \in HandleIds : PauseTorrent(h, TRUE)

SpecActivate == ActivateInit /\ [][ActivateNext]_vars

----------------------------------------------------------------------------
(* Teardown: purge, removal and the shutdown hook *)

\* stop_stream(handle_id, true) inside cleanup_all, on the manager's maps m: the
\* handle loses its session id, then the engine deletes the session with its files
\* unless the call fails, which cleanup_all only logs.
PurgeHandle(m, handle_id, engine_ok) ==
    IF ~IsSome(m.torrents[handle_id].session_id)
    THEN m
    ELSE LET session_id == Unwrap(m.torrents[handle_id].session_id)
         IN [torrents |-> [m.torrents EXCEPT ![handle_id].session_id = None],
             sessions |-> IF engine_ok /\ session_id \in DOMAIN m.sessions
                          THEN EngineDelete(m.sessions, session_id)
                          ELSE m.sessions]

\* The loop of cleanup_all over the handle ids it collected; failing are the handles
\* whose session.delete fails.
RECURSIVE PurgeAll(_, _, _)
PurgeAll(m, handles, failing) ==
    IF handles = {}
    THEN m
    ELSE LET h == CHOOSE x \in handles : \A y \in handles : x <= y
         IN PurgeAll(PurgeHandle(m, h, h \notin failing), handles \ {h}, failing)

\* Mutant: the handles whose session is paused are skipped.
CleanupRunning(failing, remove_ok) ==
    LET running == {h \in DOMAIN torrents :
                       /\ IsSome(torrents[h].session_id)
                       /\ Unwrap(torrents[h].session_id) \in DOMAIN sessions
                       /\ ~sessions[Unwrap(torrents[h].session_id)].paused}
        m == PurgeAll([torrents |-> torrents, sessions |-> sessions], running, failing)
    IN /\ failing \subseteq DOMAIN torrents
       /\ cache_file = None => remove_ok
       /\ torrents' = m.torrents
       /\ sessions' = m.sessions
       /\ cache_file' = IF remove_ok THEN None ELSE cache_file
       /\ last' = Called("cleanup_all", 0, "ok", "done")
       /\ UNCHANGED <<next_id, next_session_id, torrent_cache>>
       /\ Unchanged_media

\* cleanup_all, run by the CloseRequested hook of the main window: stop_stream(h, true)
\* for every handle, then torrent_cache.json is removed when it is there.  remove_ok:
\* the removal of the file succeeds.
CleanupAll(failing, remove_ok) ==
    LET m == PurgeAll([torrents |-> torrents, sessions |-> sessions],
                      DOMAIN torrents, failing)
    IN /\ failing \subseteq DOMAIN torrents
       /\ cache_file = None => remove_ok
       /\ torrents' = m.torrents
       /\ sessions' = m.sessions
       /\ cache_file' = IF remove_ok THEN None ELSE cache_file
       /\ last' = Called("cleanup_all", 0, "ok", "done")
       /\ UNCHANGED <<next_id, next_session_id, torrent_cache>>
       /\ Unchanged_media

\* Two handles of one source or two, activated, paused, cached, purged and removed,
\* and the window closed; the run starts with no cache file or with the file an
\* earlier run left for handle 0 and source 1.
TeardownInit ==
    \/ InitFrom(None, {}, TRUE, MaxHandles, MaxNewSessions)
    \/ InitFrom(Some(PreviousRunFile(1, 0)), {}, TRUE, MaxHandles, MaxNewSessions)

TeardownNext ==
    \/ \E u \in ActivateUris : AddTorrent(u, TRUE)
    \/ \E h \in HandleIds : PrepareStream(h, 0, "none")
    \/ \E h \in HandleIds, d \in BOOLEAN, fail \in {"none", "delete"}, now \in Times :
           StopStream(h, d, fail, now)
    \/ \E h \in HandleIds, ok \in BOOLEAN : PauseTorrent(h, ok)
    \/ \E h \in HandleIds, ok \in BOOLEAN : ResumeTorrent(h, ok)
    \/ \E h \in HandleIds, d \in BOOLEAN, ok \in BOOLEAN : RemoveTorrent(h, d, ok)
    \/ \E failing \in SUBSET HandleIds, ok \in BOOLEAN : CleanupAll(failing, ok)

SpecTeardown == TeardownInit /\ [][TeardownNext]_vars

----------------------------------------------------------------------------
(* Startup, the load of the cache file a step of its own *)

\* The entries of the cache files the run may find.
MaxSaved == 3

\* A cache file of n entries, entry i saved for handle i - 1, the session id of the
\* earlier run and source uris[i]; two entries of one source are two magnet links of
\* one torrent.
SavedFile(uris) ==
    [i \in 1 .. Len(uris) |->
        SerializeEntry(CachedTorrent(i - 1, CacheLimit + i, uris[i], 0))]

SavedFiles ==
    {SavedFile(uris) : uris \in UNION {[1 .. n -> {1, 2}] : n \in 0 .. MaxSaved}}

\* TorrentManager::new before load_cache_from_disk: the engine is new, the maps and
\* the cache list are empty, the file is what the earlier run left.
Constructing == [NoCall EXCEPT !.op = "constructing"]

StartupInit ==
    /\ torrents = EmptyMap
    /\ next_id = 0
    /\ sessions = EmptyMap
    /\ next_session_id = 0
    /\ torrent_cache = <<>>
    /\ cache_file \in {None} \cup {Some(f) : f \in SavedFiles}
    /\ transcode_states = EmptyMap
    /\ metadata_cache = EmptyMap
    /\ live_pipes = {}
    /\ caps = [handles |-> 1, sessions |-> 0]
    /\ observe = TRUE
    /\ last = Constructing
    /\ transcoder = EmptyMap
    /\ locks = NoLocks
    /\ pump = None
    /\ sampler = None
    /\ prober = NoProbes
    /\ kept_files = {}
    /\ subtitles = NoSubtitles
    /\ applied = None

\* load_cache_from_disk, called once by TorrentManager::new, which only logs its
\* error.  read_ok: the file is read and parsed; save_ok: the list is saved again.
LoadCacheFromDisk(unreachable, read_ok, save_ok) ==
    /\ last = Constructing
    /\ IF cache_file = None \/ ~read_ok
       THEN /\ unreachable = {} /\ save_ok
            /\ cache_file = None => read_ok
            /\ UNCHANGED <<sessions, next_session_id, torrent_cache, cache_file>>
            /\ caps' = [caps EXCEPT !.sessions = 1]
       ELSE LET entries == Deserialize(Unwrap(cache_file))
                r == RestoreEntries(entries, 1, sessions, next_session_id, unreachable)
            IN /\ unreachable \subseteq 1 .. Len(entries)
               /\ sessions' = r.sessions
               /\ next_session_id' = r.next
               /\ torrent_cache' = r.cache
               /\ cache_file' = IF save_ok THEN SaveCacheToDisk(r.cache) ELSE cache_file
               /\ caps' = [caps EXCEPT !.sessions = r.next + 1]
    /\ last' = NoCall
    /\ UNCHANGED <<torrents, next_id, transcode_states, metadata_cache, live_pipes,
                   observe, task_vars>>

Constructed == last # Constructing

StartupNext ==
    \/ \E unreachable \in SUBSET (1 .. MaxSaved), read_ok \in BOOLEAN, save_ok \in BOOLEAN :
           LoadCacheFromDisk(unreachable, read_ok, save_ok)
    \/ Constructed /\ \E u \in {1, CacheLimit + 1} : AddTorrent(u, TRUE)
    \/ Constructed /\ \E h \in {0} : PrepareStream(h, 0, "none")
    \/ Constructed /\ \E h \in {0}, d \in BOOLEAN, now \in Times : StopStream(h, d, "none", now)

SpecStartup == StartupInit /\ [][StartupNext]_vars

----------------------------------------------------------------------------
(* Subtitles: extract_subtitle, its background task and the subtitle cache *)

Unchanged_subtitles ==
    UNCHANGED <<torrents, next_id, sessions, next_session_id, torrent_cache,
                cache_file, transcode_states, metadata_cache, live_pipes, caps, observe,
                transcoder, locks, pump, sampler, prober, kept_files, applied>>

\* The file of the session is complete on disk: its length is the file's size.
CompleteOnDisk(session_id) == sessions[session_id].finished

\* The session a handle is bound to when the engine has it, else None.
BoundSession(handle_id) ==
    IF /\ handle_id \in DOMAIN torrents
       /\ IsSome(torrents[handle_id].session_id)
       /\ Unwrap(torrents[handle_id].session_id) \in DOMAIN sessions
    THEN torrents[handle_id].session_id
    ELSE None

\* extract_subtitle(handle_id, file_index, track_index): from the complete file when
\* it is on disk, else from a sample of the stream, and then the background task is
\* spawned.  tool_ok: the sample is written and ffmpeg extracts the track.
ExtractSubtitle(handle_id, file_index, track_index, tool_ok) ==
    /\ subtitles.background \notin {"spawned", "reading"}
    /\ LET bound == BoundSession(handle_id)
       IN IF ~IsSome(bound) \/ file_index \notin FileIndices
          THEN /\ tool_ok
               /\ last' = Called("extract_subtitle", handle_id, "err", "not_found")
               /\ UNCHANGED subtitles
          ELSE IF CompleteOnDisk(Unwrap(bound))
          THEN IF tool_ok
               THEN /\ last' = Called("extract_subtitle", handle_id, "ok", "complete")
                    /\ subtitles' = [subtitles EXCEPT !.returned = Some("complete")]
               ELSE /\ last' = Called("extract_subtitle", handle_id, "err", "tool")
                    /\ UNCHANGED subtitles
          ELSE IF ~StreamOpens(Unwrap(bound), file_index)
          THEN /\ tool_ok
               /\ last' = Called("extract_subtitle", handle_id, "err", "stream")
               /\ UNCHANGED subtitles
          ELSE IF tool_ok
          THEN /\ last' = Called("extract_subtitle", handle_id, "ok", "partial")
               /\ subtitles' = [subtitles EXCEPT !.returned = Some("partial"),
                                                 !.background = "spawned"]
          ELSE /\ last' = Called("extract_subtitle", handle_id, "err", "tool")
               /\ UNCHANGED subtitles
    /\ Unchanged_subtitles

\* extract_complete_subtitle_background after its sleep: the handle and its session
\* are looked up, and nothing is extracted when the file is complete on disk by then.
BackgroundBegin(handle_id, file_index) ==
    /\ subtitles.background = "spawned"
    /\ LET bound == BoundSession(handle_id)
       IN subtitles' =
              [subtitles EXCEPT !.background =
                  IF ~IsSome(bound) THEN "failed"
                  ELSE IF CompleteOnDisk(Unwrap(bound)) THEN "done"
                  ELSE IF ~StreamOpens(Unwrap(bound), file_index) THEN "failed"
                  ELSE "reading"]
    /\ UNCHANGED last
    /\ Unchanged_subtitles

\* tokio::fs::write(temp_dir/magnolia_subtitle_cache_{key}.srt, &subtitle_text)
SaveComplete(subs, text) == [subs EXCEPT !.temp = Some(text)]

\* extract_complete_subtitle_background: the stream is read to its end, which the
\* engine reaches when the download is complete, ffmpeg extracts the track and the
\* text is saved.  tool_ok: the reads, ffmpeg and the handle lookup succeed.
BackgroundFinish(handle_id, tool_ok) ==
    /\ subtitles.background = "reading"
    /\ LET bound == BoundSession(handle_id)
       IN IF ~IsSome(bound) \/ ~tool_ok
          THEN subtitles' = [subtitles EXCEPT !.background = "failed"]
          ELSE /\ CompleteOnDisk(Unwrap(bound))
               /\ subtitles' = [SaveComplete(subtitles, "complete") EXCEPT
                                   !.background = "done"]
    /\ UNCHANGED last
    /\ Unchanged_subtitles

\* save_subtitle_cache(cache_id, file_index, track_index, data): the client saves the
\* text extract_subtitle returned to it.
SaveSubtitleCache ==
    /\ IsSome(subtitles.returned)
    /\ subtitles' = [subtitles EXCEPT !.cache = subtitles.returned]
    /\ last' = Called("save_subtitle_cache", 0, "ok", Unwrap(subtitles.returned))
    /\ Unchanged_subtitles

\* load_subtitle_cache(cache_id, file_index, track_index)
LoadSubtitleCache ==
    /\ subtitles' = [subtitles EXCEPT !.loaded = subtitles.cache]
    /\ last' = Called("load_subtitle_cache", 0, "ok",
                      IF IsSome(subtitles.cache) THEN Unwrap(subtitles.cache) ELSE "none")
    /\ Unchanged_subtitles

\* The download of the session completes.
DownloadCompletes(session_id) ==
    /\ session_id \in DOMAIN sessions
    /\ ~sessions[session_id].finished
    /\ EngineProgress(session_id, TotalBytes, TRUE, TRUE)

\* One handle, activated, whose file is streamed while it downloads; the client
\* extracts a subtitle track, saves it and loads it.
SubtitleInit == InitFrom(None, {}, TRUE, 1, 1)

SubtitleNext ==
    \/ \E u \in {CacheLimit + 1} : AddTorrent(u, TRUE)
    \/ \E h \in {0} : PrepareStream(h, 0, "none")
    \/ \E s \in DOMAIN sessions : ~sessions[s].finished /\ EngineProgress(s, 0, FALSE, TRUE)
    \/ DownloadCompletes(0)
    \/ \E ok \in BOOLEAN : ExtractSubtitle(0, 0, 0, ok)
    \/ BackgroundBegin(0, 0)
    \/ \E ok \in BOOLEAN : BackgroundFinish(0, ok)
    \/ SaveSubtitleCache
    \/ LoadSubtitleCache

SpecSubtitle == SubtitleInit /\ [][SubtitleNext]_vars

\* The background task runs, the download completes in the end, its reads and ffmpeg
\* succeed when they can, and the client goes on loading the cache.
SpecSubtitleFair ==
    /\ SpecSubtitle
    /\ WF_vars(BackgroundBegin(0, 0))
    /\ WF_vars(DownloadCompletes(0))
    /\ WF_vars(BackgroundFinish(0, TRUE))
    /\ WF_vars(LoadSubtitleCache)

----------------------------------------------------------------------------
(* list_torrents and add_torrent under the RwLock of the handle map, which hands its
   guards out in the order they were asked for *)

\* A call of read() or write() that has to wait joins the queue of the lock.
Enqueued(t, task) ==
    [Moved(t, task, locks.readers, locks.writer, locks.cache_writer) EXCEPT
        !.queue = Append(locks.queue, t)]

\* The request at the head of the queue gets its guard.
Granted(t, task, readers, writer) ==
    [Moved(t, task, readers, writer, locks.cache_writer) EXCEPT
        !.queue = Tail(locks.queue)]

AtHead(t) == locks.queue # <<>> /\ Head(locks.queue) = t

\* A read guard is granted when no writer holds the lock and no earlier request waits.
ReadGranted(t) == locks.writer = None /\ AtHead(t)

\* A write guard is granted when no guard is alive and no earlier request waits.
WriteGranted(t) == locks.writer = None /\ locks.readers = {} /\ AtHead(t)

\* The handles list_torrents has still to visit, in the order of their ids.
ToVisit(t) == {h \in DOMAIN torrents : h >= locks.task[t].arg}

Unchanged_list ==
    /\ UNCHANGED <<torrents, next_id, sessions, next_session_id, torrent_cache,
                   cache_file>>
    /\ Unchanged_steps

\* list_torrents: self.torrents.read() is called.
ListBegin(t) ==
    /\ Idle(t)
    /\ locks' = Enqueued(t, Task("list_torrents", "read", 0, 0, None, None, "none"))
    /\ Unchanged_list

\* list_torrents: the read guard is granted and the iteration starts.
ListLocked(t) ==
    /\ At(t, "list_torrents", "read")
    /\ ReadGranted(t)
    /\ locks' = Granted(t, [locks.task[t] EXCEPT !.pc = "iterate"],
                        locks.readers \cup {t}, locks.writer)
    /\ Unchanged_list

\* list_torrents: get_torrent_info of the next handle calls self.torrents.read()
\* while the guard of list_torrents is alive.
ListInfoBegin(t) ==
    /\ At(t, "list_torrents", "iterate")
    /\ ToVisit(t) # {}
    /\ LET our_id == CHOOSE h \in ToVisit(t) : \A g \in ToVisit(t) : h <= g
       IN locks' = Enqueued(t, [locks.task[t] EXCEPT !.pc = "info", !.handle_id = our_id])
    /\ Unchanged_list

\* get_torrent_info: its read guard is granted; the info of a bound handle is built
\* and the guard dropped at the return, the guard of an unbound handle is dropped
\* before the list_only add is sent to the engine.
ListInfoLocked(t) ==
    /\ At(t, "list_torrents", "info")
    /\ ReadGranted(t)
    /\ LET me == locks.task[t]
       IN locks' = Granted(t,
                       IF IsSome(torrents[me.handle_id].session_id)
                       THEN [me EXCEPT !.pc = "iterate", !.arg = me.handle_id + 1]
                       ELSE [me EXCEPT !.pc = "listing", !.engine = "add"],
                       locks.readers, locks.writer)
    /\ Unchanged_list

\* get_torrent_info: the engine answers the list_only add; an error is dropped by
\* list_torrents.
ListInfoListed(t, engine_ok) ==
    /\ At(t, "list_torrents", "listing")
    /\ locks' = Moved(t, [locks.task[t] EXCEPT !.pc = "iterate", !.engine = "none",
                                               !.arg = locks.task[t].handle_id + 1],
                      locks.readers, locks.writer, locks.cache_writer)
    /\ Unchanged_list

\* list_torrents: every handle is visited, the guard dropped and the list returned.
ListDone(t) ==
    /\ At(t, "list_torrents", "iterate")
    /\ ToVisit(t) = {}
    /\ locks' = Moved(t, NoTask, locks.readers \ {t}, locks.writer, locks.cache_writer)
    /\ last' = Called("list_torrents", 0, "ok", "none")
    /\ UNCHANGED <<torrents, next_id, sessions, next_session_id, torrent_cache,
                   cache_file, transcode_states, metadata_cache, live_pipes, caps,
                   observe, transcoder, pump, sampler, applied, prober, kept_files,
                   subtitles>>

\* add_torrent: self.torrents.write() is called.
AddInsertBegin(t) ==
    /\ At(t, "add_torrent", "insert")
    /\ locks' = Enqueued(t, [locks.task[t] EXCEPT !.pc = "write"])
    /\ Unchanged_list

\* add_torrent: the write guard is granted, the handle stored and the guard dropped.
AddInsertLocked(t) ==
    /\ At(t, "add_torrent", "write")
    /\ WriteGranted(t)
    /\ torrents' = Insert(torrents, locks.task[t].handle_id,
                          [magnet_url |-> locks.task[t].arg, session_id |-> None])
    /\ locks' = Granted(t, NoTask, locks.readers, locks.writer)
    /\ UNCHANGED <<next_id, sessions, next_session_id, torrent_cache, cache_file>>
    /\ Unchanged_steps

\* What a task does once it is in a call.
ListStep(t) ==
    \/ \E ok \in BOOLEAN : AddListed(t, ok)
    \/ AddAllocate(t)
    \/ AddInsertBegin(t)
    \/ AddInsertLocked(t)
    \/ ListLocked(t)
    \/ ListInfoBegin(t)
    \/ ListInfoLocked(t)
    \/ \E ok \in BOOLEAN : ListInfoListed(t, ok)
    \/ ListDone(t)

\* Two tasks that register handles and list them.
ListInit == InitFrom(None, {}, TRUE, MaxStepHandles + 1, 1)

ListNext ==
    \E t \in Tasks :
        \/ \E u \in {CacheLimit + 1} : AddBegin(t, u)
        \/ ListBegin(t)
        \/ ListStep(t)

SpecList == ListInit /\ [][ListNext]_vars

\* The runtime polls every task that can go on, and the engine answers.
SpecListFair == SpecList /\ \A t \in Tasks : WF_vars(ListStep(t))

----------------------------------------------------------------------------
(* Properties of the cache of paused sessions *)

\* The entries of this list a caching of (handle_id, magnet_url) does not replace.
Others(cache, handle_id, magnet_url) ==
    SelectSeq(cache, LAMBDA ct : ct.handle_id # handle_id /\ ct.magnet_url # magnet_url)

IsPrefix(a, b) == Len(a) <= Len(b) /\ \A i \in 1 .. Len(a) : a[i] = b[i]

\* The session the startup gave the oldest entry of a restored full cache.
OldestRestoredSession == CacheLimit - 1

\* An eviction has taken place: a handle of this run is at the front of a full cache
\* and the oldest restored entry's session has left the engine.
AfterEviction ==
    /\ Len(torrent_cache) = CacheLimit
    /\ torrent_cache[1].handle_id \in DOMAIN torrents
    /\ IsSome(cache_file) /\ Len(Unwrap(cache_file)) = CacheLimit
    /\ next_session_id > CacheLimit
    /\ OldestRestoredSession \notin DOMAIN sessions

\* C1: in every reachable state the cache of paused sessions holds at most 10 entries.
C1_CacheBound == Len(torrent_cache) <= CacheLimit

C1_Witness == AfterEviction /\ next_id = 1

\* C2: a stop_stream(handle, false) that reaches the caching puts the handle's entry at
\* the front, keeps the other entries in their order behind it, and drops entries only
\* from the back and only as far as the limit of 10 asks: what is evicted is what was
\* cached least recently.
C2_StepIsLru(handle_id) ==
    LET others == Others(torrent_cache, handle_id, torrents[handle_id].magnet_url)
        new == torrent_cache'
    IN /\ Len(new) >= 1
       /\ new[1].handle_id = handle_id
       /\ new[1].magnet_url = torrents[handle_id].magnet_url
       /\ IsPrefix(Tail(new), others)
       /\ Len(new) = Min(Len(others) + 1, CacheLimit)

C2_EvictsLeastRecent ==
    [][\A h \in HandleIds, fail \in {"none", "delete"}, now \in Times :
          (/\ h \in DOMAIN torrents
           /\ IsSome(torrents[h].session_id)
           /\ StopStream(h, FALSE, fail, now)) => C2_StepIsLru(h)]_vars

\* Both handles of this run are cached in front of the restored entries, the oldest
\* restored entry is gone and the second oldest is now at the back.
C2_Witness ==
    /\ AfterEviction
    /\ next_id = 2
    /\ torrent_cache[2].handle_id \in DOMAIN torrents
    /\ torrent_cache[CacheLimit].session_id = OldestRestoredSession - 2

\* C3: a registered handle's session_id is Some exactly when the engine holds a session
\* with that id.
C3_SessionIffExists ==
    \A h \in DOMAIN torrents :
        IsSome(torrents[h].session_id) <=>
            \E id \in DOMAIN sessions : torrents[h].session_id = Some(id)

\* C4: prepare_stream on a handle with a cached entry whose session the engine still
\* holds adds no session to the engine and takes the entry off the cache; when it
\* succeeds the cached session is not paused and the handle is bound to its id.
C4_StepResumes(handle_id, fail) ==
    LET session_id == Unwrap(FindCached(torrent_cache, handle_id))
    IN /\ DOMAIN sessions' = DOMAIN sessions
       /\ next_session_id' = next_session_id
       /\ \A i \in 1 .. Len(torrent_cache') : torrent_cache'[i].handle_id # handle_id
       /\ Len(torrent_cache') = Len(torrent_cache) - 1
       /\ fail = "none" =>
              /\ ~sessions'[session_id].paused
              /\ torrents'[handle_id].session_id = Some(session_id)

C4_ResumeReusesSession ==
    [][\A h \in HandleIds, f \in FileIndices, fail \in PrepareFailures :
          (/\ h \in DOMAIN torrents
           /\ \E i \in 1 .. Len(torrent_cache) :
                  /\ torrent_cache[i].handle_id = h
                  /\ torrent_cache[i].session_id \in DOMAIN sessions
           /\ PrepareStream(h, f, fail)) => C4_StepResumes(h, fail)]_vars

\* A handle was cached and resumed: the file still lists its entry, the cache no longer
\* does, and the handle is bound to that session, which is running.
C4_Witness ==
    \E h \in DOMAIN torrents :
        /\ IsSome(cache_file) /\ Unwrap(cache_file) # <<>>
        /\ Unwrap(cache_file)[1].handle_id = h
        /\ torrents[h].session_id = Some(Unwrap(cache_file)[1].session_id)
        /\ \A i \in 1 .. Len(torrent_cache) : torrent_cache[i].handle_id # h
        /\ Unwrap(torrents[h].session_id) \in DOMAIN sessions
        /\ ~sessions[Unwrap(torrents[h].session_id)].paused

\* C6: no two registered handles are bound to the same session.
C6_SessionBoundOnce ==
    \A h1, h2 \in DOMAIN torrents :
        (h1 # h2 /\ IsSome(torrents[h1].session_id)) =>
            torrents[h1].session_id # torrents[h2].session_id

\* C7: every entry of the cache refers to a session the engine holds, and that session
\* is paused.
C7_CachedArePaused ==
    \A i \in 1 .. Len(torrent_cache) :
        /\ torrent_cache[i].session_id \in DOMAIN sessions
        /\ sessions[torrent_cache[i].session_id].paused

\* C8: after every call that changes the cache list and returns Ok (a stop_stream that
\* caches, a prepare_stream that resumes), the cache file holds that list.
C8_FileFollowsCache ==
    [][\A h \in HandleIds, f \in FileIndices, now \in Times :
          (/\ PrepareStream(h, f, "none") \/ StopStream(h, FALSE, "none", now)
           /\ torrent_cache' # torrent_cache)
          => cache_file' = Some(Serialize(torrent_cache'))]_vars

\* C5: a stop_stream(handle, false) that evicts leaves the evicted entry's session out
\* of the engine and the evicted handle without a session, and every entry left in the
\* cache keeps the session it had; and once 11 handles have been cached one after
\* another, the first is purged and the cache holds the other ten.
C5_StepPurgesEvicted(handle_id) ==
    LET others == Others(torrent_cache, handle_id, torrents[handle_id].magnet_url)
        left == {torrent_cache'[i] : i \in 1 .. Len(torrent_cache')}
        evicted == {others[i] : i \in 1 .. Len(others)} \ left
    IN /\ \A e \in evicted :
              /\ e.session_id \notin DOMAIN sessions'
              /\ e.handle_id \in DOMAIN torrents' =>
                     torrents'[e.handle_id].session_id = None
       /\ \A e \in left :
              e.session_id \in DOMAIN sessions => e.session_id \in DOMAIN sessions'

C5_ElevenCached ==
    (/\ next_id = CacheLimit + 1
     /\ torrent_cache # <<>>
     /\ torrent_cache[1].handle_id = CacheLimit)
    => /\ Len(torrent_cache) = CacheLimit
       /\ \A i \in 1 .. CacheLimit : torrent_cache[i].handle_id = CacheLimit + 1 - i
       /\ torrents[0].session_id = None
       /\ ManagedFor(sessions, torrents[0].magnet_url) = {}

C5_EvictionPurges ==
    [][/\ \A h \in 0 .. CacheLimit, now \in Times :
              (/\ h \in DOMAIN torrents
               /\ IsSome(torrents[h].session_id)
               /\ StopStream(h, FALSE, "none", now)) => C5_StepPurgesEvicted(h)
       /\ C5_ElevenCached']_vars

----------------------------------------------------------------------------
(* Properties of the status poll *)

\* A step that is a get_stream_status(handle_id, file_index) call returning Ok.
IsStatusReply(reply) == reply.op = "get_stream_status" /\ reply.res = "ok"

PollOk(handle_id, file_index, on_disk) ==
    /\ IsStatusReply(last')
    /\ GetStreamStatus(handle_id, file_index, on_disk)

PolledSession(handle_id) == Unwrap(torrents[handle_id].session_id)

\* The stream of the polled session is seekable and buffered.
SeekableAndBuffered(handle_id) ==
    LET stats == sessions[PolledSession(handle_id)]
    IN stats.streamable /\ (stats.progress_bytes > BufferBytes \/ stats.finished)

\* The metadata the poll goes by, probed or cached, says a track needs transcoding.
MetadataNeeds(handle_id, file_index, on_disk) ==
    LET session_id == PolledSession(handle_id)
        found == StreamMetadata(session_id, file_index, sessions[session_id], on_disk)
    IN \/ NeedsFromCache(session_id, file_index)
       \/ IsSome(found) /\ Unwrap(found).needs_audio_transcoding

\* A live transcoder has been attached to the file of the session.
Piped(session_id, file_index) ==
    \E p \in live_pipes : p[1] = session_id /\ p[2] = file_index

\* An uncompleted TranscodeState is recorded for the file of the session.
Recorded(session_id, file_index) ==
    /\ <<session_id, file_index>> \in DOMAIN transcode_states
    /\ ~transcode_states[<<session_id, file_index>>].completed

StatusNow(handle_id, file_index, on_disk) ==
    LET session_id == PolledSession(handle_id)
        stats == sessions[session_id]
        key == <<session_id, file_index>>
        is_ready == stats.streamable /\ HasBuffer(stats.progress_bytes, stats.finished)
    IN StatusOf(is_ready,
                is_ready /\ MetadataNeeds(handle_id, file_index, on_disk),
                TranscodeStreamingReady(TranscodeProgress(transcode_states, key),
                                        TranscodeCompleted(transcode_states, key)))

\* C11: a status poll changes none of the handle map, the metadata cache, the
\* transcode-state map and the cache list, and the same poll made again right after it,
\* with the engine stats and the metadata cache as they were, reports the same status.
C11_PollIsPure ==
    [][\A h \in DOMAIN torrents, f \in FileIndices, d \in OnDisk :
          (IsStatusReply(last') /\ PollOk(h, f, d)) =>
              /\ UNCHANGED <<torrents, metadata_cache, transcode_states, torrent_cache>>
              /\ StatusNow(h, f, d)' = last'.path]_vars

----------------------------------------------------------------------------
(* Properties of the transcode task *)

\* C12: the progress of a tracked transcode never decreases from one step to the next,
\* is at most 99 until the transcoder has exited successfully, is exactly 100 whenever
\* completed is set, and after a failed exit completed is unset and an error recorded.
C12_ProgressMonotone ==
    [][/\ \A key \in DOMAIN transcode_states \cap DOMAIN transcode_states' :
              transcode_states'[key].progress >= transcode_states[key].progress
       /\ \A key \in DOMAIN transcode_states' \cap DOMAIN transcoder' :
              LET state == transcode_states'[key]
              IN /\ transcoder'[key].pc # "success" => state.progress <= 99
                 /\ state.completed => state.progress = 100
                 /\ transcoder'[key].pc = "failure" =>
                        ~state.completed /\ IsSome(state.error)]_vars

\* C13: when a session leaves the engine (an eviction from the cache, a stop_stream
\* with delete_files, a remove_torrent), no TranscodeState keyed by its id remains in
\* the transcode-state map afterwards.
C13_StatesLeaveWithSession ==
    [][\A session_id \in DOMAIN sessions \ DOMAIN sessions' :
          \A key \in DOMAIN transcode_states' : key[1] # session_id]_vars

----------------------------------------------------------------------------
(* Properties of the HTTP surface *)

IsStreamFile(a) == IsSome(a) /\ Unwrap(a).op = "stream_file"

\* The request asks for bytes=start-end with 0 <= start <= end < file_size.
ValidRange(a) ==
    /\ IsSome(a.range) /\ Unwrap(a.range).bytes
    /\ IsSome(Unwrap(a.range).first) /\ IsSome(Unwrap(a.range).second)
    /\ Unwrap(Unwrap(a.range).first) <= Unwrap(Unwrap(a.range).second)
    /\ Unwrap(Unwrap(a.range).second) < a.file_size

\* C14: stream_file, when the engine stream opens and seeks, answers a valid range
\* bytes=start-end with 206, Content-Range start-end/file_size, Content-Length
\* end-start+1 and the bytes start..end of the file; and a request without a Range
\* header with 200 and the whole file.
C14_RangeReply ==
    (IsStreamFile(applied) /\ Unwrap(applied).reply.status # 500) =>
        LET a == Unwrap(applied)
            content == FileContent(a.file_size)
        IN /\ ValidRange(a) =>
                  LET start == Unwrap(Unwrap(a.range).first)
                      end == Unwrap(Unwrap(a.range).second)
                  IN /\ a.reply.status = 206
                     /\ a.reply.content_range = Some(<<start, end, a.file_size>>)
                     /\ a.reply.content_length = end - start + 1
                     /\ a.reply.body = SubSeq(content, start + 1, end + 1)
           /\ a.range = None =>
                  /\ a.reply.status = 200
                  /\ a.reply.content_length = a.file_size
                  /\ a.reply.body = content

----------------------------------------------------------------------------
(* Properties of the codec classification *)

IsExtracted(a) == IsSome(a) /\ Unwrap(a).op = "extract_mkv_metadata_ffprobe"

\* C15: every audio track whose codec is aac, mp3, opus, vorbis or flac is classified
\* needs_transcoding = FALSE, and every track whose codec is ac3, eac3, dts, truehd or
\* one the classifier does not know is classified needs_transcoding = TRUE.
C15_CodecTable ==
    IsExtracted(applied) =>
        LET tracks == Unwrap(applied).metadata.audio_tracks
        IN \A i \in 1 .. Len(tracks) :
               /\ tracks[i].codec \in {"aac", "mp3", "opus", "vorbis", "flac"} =>
                      ~tracks[i].needs_transcoding
               /\ tracks[i].codec \in {"ac3", "eac3", "dts", "truehd", "unknown", "speex"} =>
                      tracks[i].needs_transcoding

----------------------------------------------------------------------------
(* Properties of the manager's locks *)

\* The tasks waiting for an engine call (add, pause, unpause, delete) to answer.
InEngineCall == {t \in Tasks : locks.task[t].engine # "none"}

\* C16: a task waiting for an engine call to answer holds no guard, read or write, on
\* the handle map.
C16_NoMapLockAcrossEngineCalls ==
    \A t \in InEngineCall : t \notin locks.readers /\ locks.writer # Some(t)

\* C17: while the engine deletes an evicted session, the write guard on the cache
\* list is held by no task.
C17_PurgeOutsideCacheLock ==
    \A t \in Tasks :
        At(t, "stop_stream", "evicting") => locks.cache_writer = None

----------------------------------------------------------------------------
(* Properties of the live transcode *)

Disconnected == IsSome(pump) /\ Unwrap(pump).client = "gone"
PumpStopped == IsSome(pump) /\ Unwrap(pump).pc = "done"
ChildExited == IsSome(pump) /\ Unwrap(pump).child = "exited"

\* C18: once the client of a live transcode has disconnected, the pump eventually
\* stops and the transcoder process eventually exits.
C18_DisconnectStopsPipe == Disconnected ~> (PumpStopped /\ ChildExited)

\* The pump's part of the claim: what was written, followed by what write_all still
\* holds, is what was read, a prefix of the source; the pump has stopped exactly when
\* a read returned end of stream or an error or a write failed, stdin is closed from
\* then on, and nothing of the pump can move.
PumpContract ==
    IsSome(pump) /\ Unwrap(pump).handler \in {"spawned", "responded"} =>
        LET p == Unwrap(pump)
        IN /\ IsPrefix(p.stdin, SourceBytes)
           /\ p.pc # "done" => /\ p.stdin \o p.buffer = SubSeq(SourceBytes, 1, p.read)
                               /\ p.stdin_open
                               /\ p.stop = "none"
           /\ p.pc = "done" => /\ ~p.stdin_open
                               /\ p.stop \in {"eof", "read_error", "write_error"}
                               /\ p.stop = "eof" => p.stdin = SourceBytes
                               /\ ~ENABLED PumpWrite
                               /\ ~ENABLED (\E o \in {"data", "eof", "error"},
                                               n \in 0 .. MaxChunk : PumpRead(o, n))

\* The response is returned while the pump is still in its loop.
HandedBeforePumpFinished ==
    (IsSome(pump) /\ Unwrap(pump).handler = "spawned"
        /\ Unwrap(pump').handler = "responded") => Unwrap(pump).pc # "done"

\* C19 as stated: the pump's contract, and the response is handed to the client
\* before the pump has finished.
C19_PumpAndEarlyResponse == [] PumpContract /\ [][HandedBeforePumpFinished]_vars

\* C19, amended: the pump's contract, and the handler returns the response without
\* waiting for the pump, whether the pump is still in its loop or has left it.
C19_PumpAndUnawaitedResponse ==
    /\ PumpContract
    /\ (IsSome(pump) /\ Unwrap(pump).handler = "spawned") => ENABLED HandlerRespond

\* The whole source went through the pump, which stopped at the end of the stream,
\* and the response was returned.
C19_Witness ==
    /\ PumpStopped
    /\ Unwrap(pump).stop = "eof"
    /\ Unwrap(pump).stdin = SourceBytes
    /\ Unwrap(pump).handler = "responded"

----------------------------------------------------------------------------
(* Properties of the sampling loop *)

Sampling == IsSome(sampler) /\ Unwrap(sampler).pc = "loop"
SamplingStopped == IsSome(sampler) /\ Unwrap(sampler).pc = "done"

\* In the loop less than min(file_size, 100 MB) is sampled and fewer than 150 empty
\* reads came in a row; a non-empty read leaves the count at zero; the loop is left
\* on a read error, at the 150th empty read in a row, and once everything is sampled.
SamplingRules ==
    IsSome(sampler) =>
        LET s == Unwrap(sampler)
        IN /\ s.max_size = Min(s.file_size, SampleLimit)
           /\ s.pc = "loop" => /\ s.total_read < s.max_size
                               /\ s.consecutive_empty_reads < max_empty_reads
                               /\ s.last_read # "error"
           /\ s.last_read = "data" => s.consecutive_empty_reads = 0
           /\ s.pc = "done" =>
                  /\ s.stop = "sampled" <=> (s.total_read >= s.max_size)
                  /\ s.stop = "empty_reads" <=>
                         (s.last_read = "empty" /\ s.consecutive_empty_reads = max_empty_reads)
                  /\ s.stop = "read_error" <=> (s.last_read = "error")

\* C20: when every read returns, the sampling loop terminates, and it keeps to the
\* rules above.
C20_SamplingTerminates == [] SamplingRules /\ (Sampling ~> SamplingStopped)

\* The loop was left at the 150th empty read in a row, after reads that had data.
C20_Witness ==
    /\ SamplingStopped
    /\ Unwrap(sampler).stop = "empty_reads"
    /\ Unwrap(sampler).total_read > 0

----------------------------------------------------------------------------
(* Properties of the endpoints' failure replies *)

IsEndpointReply(call) ==
    call.op \in {"stream_file", "get_file_metadata", "get_subtitle_track",
                 "stream_transcoded_audio"}

\* The session or the file a request names does not exist.
Missing(session_id, file_id) ==
    session_id \notin DOMAIN sessions \/ file_id \notin FileIndices

\* The engine has the session and the file and cannot open the byte stream.
CannotOpen(session_id, file_id) ==
    ~Missing(session_id, file_id) /\ ~sessions[session_id].streamable

\* C21: on every streaming endpoint a missing session or file is answered 404, a
\* stream the engine cannot open and a subprocess that does not start are answered
\* 500, and a probe that sampled fewer than 10 MB is answered 503.
C21_FailureReplies ==
    [][IsEndpointReply(last') =>
          \A s \in RequestSessions, f \in RequestFiles :
              /\ \A n \in FileSizes, c \in BOOLEAN :
                     StreamFileRequest(s, f, n, None, c, TRUE) =>
                         /\ Missing(s, f) => last'.res = "404"
                         /\ CannotOpen(s, f) => last'.res = "500"
              /\ \A n \in {0, MinProbeBytes}, p \in {None} \cup {Some(x) : x \in ProbedStreams} :
                     GetFileMetadata(s, f, n, p) =>
                         /\ Missing(s, f) => last'.res = "404"
                         /\ CannotOpen(s, f) => last'.res = "500"
                         /\ (~Missing(s, f) /\ ~CannotOpen(s, f) /\ n < MinProbeBytes)
                                => last'.res = "503"
                         /\ (~Missing(s, f) /\ ~CannotOpen(s, f) /\ n >= MinProbeBytes
                                /\ p = None) => last'.res = "500"
              /\ \A fail \in SubtitleFailures :
                     GetSubtitleTrack(s, f, 0, fail) =>
                         /\ Missing(s, f) => last'.res = "404"
                         /\ CannotOpen(s, f) => last'.res = "500"
                         /\ (~Missing(s, f) /\ ~CannotOpen(s, f) /\ fail = "run")
                                => last'.res = "500"
              /\ \A ok \in BOOLEAN :
                     StreamTranscodedAudio(s, f, 0, ok) =>
                         /\ Missing(s, f) => last'.res = "404"
                         /\ CannotOpen(s, f) => last'.res = "500"
                         /\ (~Missing(s, f) /\ ~CannotOpen(s, f) /\ ~ok)
                                => last'.res = "500"]_vars

----------------------------------------------------------------------------
(* Properties of the scratch file of a metadata request *)

\* Request t returns in this step.
Returns(t) == IsSome(prober.running[t]) /\ prober'.running[t] = None

\* The metadata cache differs from what it was at most in the entry of key.
WritesOnly(key) ==
    /\ DOMAIN metadata_cache' = DOMAIN metadata_cache \cup {key}
    /\ \A k \in DOMAIN metadata_cache \ {key} : metadata_cache'[k] = metadata_cache[k]

----------------------------------------------------------------------------
(* Properties of activation *)

\* Handle h is bound to a session of the engine that runs and selects file f alone.
BoundUnpausedOnly(h, f) ==
    /\ h \in DOMAIN torrents'
    /\ IsSome(torrents'[h].session_id)
    /\ Unwrap(torrents'[h].session_id) \in DOMAIN sessions'
    /\ ~sessions'[Unwrap(torrents'[h].session_id)].paused
    /\ sessions'[Unwrap(torrents'[h].session_id)].only_files = Some(f)

\* C23: after prepare_stream(handle, file_index) succeeds, the handle is bound to an
\* engine session that is unpaused and whose selected files are exactly [file_index],
\* whether the session was added, was already managed or was resumed from the cache.
C23_ActivateSelectsFile ==
    [][(last'.op = "prepare_stream" /\ last'.res = "ok") =>
          \A h \in HandleIds, f \in FileIndices :
              PrepareStream(h, f, "none") => BoundUnpausedOnly(h, f)]_vars

----------------------------------------------------------------------------
(* Properties of registration *)

\* C24: add_torrent(uri) that succeeds returns a handle id that was not registered and
\* stores it with the source and no session, and the engine's sessions are what they
\* were; when the engine cannot resolve the source the call fails and stores no handle.
C24_RegisterListsOnly ==
    [][last'.op = "add_torrent" =>
          \A u \in ActivateUris, ok \in BOOLEAN :
              AddTorrent(u, ok) =>
                  IF ok
                  THEN /\ last'.res = "ok"
                       /\ last'.handle_id \notin DOMAIN torrents
                       /\ torrents' = Insert(torrents, last'.handle_id,
                                             [magnet_url |-> u, session_id |-> None])
                       /\ sessions' = sessions
                  ELSE /\ last'.res = "err"
                       /\ torrents' = torrents
                       /\ sessions' = sessions]_vars

\* A source the engine manages already was registered again, and a registration
\* failed: the new handle has no session.
C24_Witness ==
    /\ last.op = "add_torrent" /\ last.res = "err"
    /\ DOMAIN torrents = {0}
    /\ torrents[0].session_id = None
    /\ \E id \in DOMAIN sessions : sessions[id].uri = torrents[0].magnet_url

----------------------------------------------------------------------------
(* Properties of teardown *)

\* C25: after stop_stream(handle, true) succeeds on a handle with a session, the
\* session is no longer in the engine and no file of it is kept, the handle's
\* session_id is None and the handle is still registered with its source.
C25_PurgeDeletesSession ==
    [][(last'.op = "stop_stream" /\ last'.res = "ok") =>
          \A h \in HandleIds :
              (/\ h \in DOMAIN torrents
               /\ IsSome(torrents[h].session_id)
               /\ StopStream(h, TRUE, "none", 1))
              => /\ Unwrap(torrents[h].session_id) \notin DOMAIN sessions'
                 /\ Unwrap(torrents[h].session_id) \notin kept_files'
                 /\ torrents' = [torrents EXCEPT ![h].session_id = None]]_vars

\* A handle was purged while its session was running.
C25_Witness ==
    /\ last.op = "stop_stream" /\ last.path = "purged"
    /\ last.handle_id \in DOMAIN torrents
    /\ torrents[last.handle_id].session_id = None
    /\ \A id \in DOMAIN sessions : sessions[id].uri # torrents[last.handle_id].magnet_url

\* Handle h had a session and remove_torrent(h, d) deleted it in this step.
RemovesBound(h, d) ==
    /\ h \in DOMAIN torrents
    /\ IsSome(torrents[h].session_id)
    /\ RemoveTorrent(h, d, TRUE)

\* C26: after remove_torrent(handle, delete_files) succeeds the handle is no longer
\* registered, and the session it was bound to, if any, is deleted from the engine
\* with its files, as by stop_stream(handle, true).
C26_RemovePurges ==
    [][(last'.op = "remove_torrent" /\ last'.res = "ok") =>
          \A h \in HandleIds, d \in BOOLEAN :
              /\ (h \in DOMAIN torrents /\ RemoveTorrent(h, d, TRUE))
                     => torrents' = Remove(torrents, h)
              /\ RemovesBound(h, d)
                     => /\ Unwrap(torrents[h].session_id) \notin DOMAIN sessions'
                        /\ Unwrap(torrents[h].session_id) \notin kept_files']_vars

\* C26, amended: after remove_torrent(handle, delete_files) succeeds the handle is no
\* longer registered and the session it was bound to, if any, is deleted from the
\* engine; the files of the session are deleted when delete_files is true and stay on
\* disk when it is false.
C26_RemoveDeletesFilesWhenAsked ==
    [][(last'.op = "remove_torrent" /\ last'.res = "ok") =>
          \A h \in HandleIds, d \in BOOLEAN :
              /\ (h \in DOMAIN torrents /\ RemoveTorrent(h, d, TRUE))
                     => torrents' = Remove(torrents, h)
              /\ RemovesBound(h, d)
                     => /\ Unwrap(torrents[h].session_id) \notin DOMAIN sessions'
                        /\ Unwrap(torrents[h].session_id) \notin kept_files
                        /\ (Unwrap(torrents[h].session_id) \in kept_files') = ~d
                        /\ kept_files \subseteq kept_files']_vars

\* A handle was removed with delete_files false: it is not registered, its session
\* is not in the engine and the files of the session are on disk.
C26_Witness ==
    /\ last.op = "remove_torrent" /\ last.path = "deleted"
    /\ last.handle_id \notin DOMAIN torrents
    /\ kept_files # {}
    /\ kept_files \cap DOMAIN sessions = {}

\* C27: pause_torrent and resume_torrent on a registered handle that has no session
\* return Ok without calling the engine and leave the handle map, the cache, the
\* cache file and every engine session as they were.
C27_PauseResumeWithoutSession ==
    [][last'.op \in {"pause_torrent", "resume_torrent"} =>
          \A h \in HandleIds, ok \in BOOLEAN :
              (/\ h \in DOMAIN torrents
               /\ ~IsSome(torrents[h].session_id)
               /\ PauseTorrent(h, ok) \/ ResumeTorrent(h, ok))
              => /\ last'.res = "ok"
                 /\ last'.path = "noop"
                 /\ UNCHANGED <<torrents, next_id, sessions, next_session_id,
                                torrent_cache, cache_file, kept_files>>]_vars

\* resume_torrent returned Ok for a handle with no session while the engine has a
\* paused session of the cache.
C27_Witness ==
    /\ last.op = "resume_torrent" /\ last.path = "noop"
    /\ last.handle_id \in DOMAIN torrents
    /\ torrents[last.handle_id].session_id = None
    /\ torrent_cache # <<>>
    /\ \E id \in DOMAIN sessions : sessions[id].paused

\* The sessions bound to the handles in H.
BoundSessions(H) ==
    {Unwrap(torrents[h].session_id) : h \in {x \in H : IsSome(torrents[x].session_id)}}

----------------------------------------------------------------------------
(* Properties of startup *)

\* The entries of a list, the session ids left out.
WithoutSessionIds(cache) ==
    [i \in 1 .. Len(cache) |-> [cache[i] EXCEPT !.session_id = 0]]

\* The entries of a list at the positions outside skip, in their order.
RECURSIVE KeptEntries(_, _, _)
KeptEntries(entries, i, skip) ==
    IF i > Len(entries) THEN <<>>
    ELSE (IF i \in skip THEN <<>> ELSE <<entries[i]>>) \o KeptEntries(entries, i + 1, skip)

\* C29: after load_cache_from_disk has loaded the cache file, every entry of the cache
\* carries a session id the engine knows and that session is paused; the entries
\* whose source the engine could not add are left out, and the entries kept are in
\* their saved order.
C29_RestoredEntries ==
    [][last = Constructing =>
          \A unreachable \in SUBSET (1 .. MaxSaved), save_ok \in BOOLEAN :
              (cache_file # None /\ LoadCacheFromDisk(unreachable, TRUE, save_ok)) =>
                  /\ \A i \in 1 .. Len(torrent_cache') :
                         /\ torrent_cache'[i].session_id \in DOMAIN sessions'
                         /\ sessions'[torrent_cache'[i].session_id].paused
                         /\ sessions'[torrent_cache'[i].session_id].uri
                                = torrent_cache'[i].magnet_url
                  /\ WithoutSessionIds(torrent_cache') =
                         WithoutSessionIds(KeptEntries(Deserialize(Unwrap(cache_file)), 1,
                                                       unreachable))]_vars

\* A file of three entries was loaded, the source of the second unreachable and the
\* third a second link of the first: two entries are kept, with one session.
C29_Witness ==
    /\ last = NoCall
    /\ Len(torrent_cache) = 2
    /\ torrent_cache[1].handle_id = 0 /\ torrent_cache[2].handle_id = 2
    /\ torrent_cache[1].session_id = torrent_cache[2].session_id
    /\ DOMAIN sessions = {torrent_cache[1].session_id}

----------------------------------------------------------------------------
(* Properties of the handle ids *)

\* The add_torrent calls that hold an id they have not stored yet.
Allocated == {t \in Tasks : locks.task[t].op = "add_torrent" /\ locks.task[t].pc = "insert"}

\* The ids handed out and in use: every one is below the counter, and two calls in
\* flight hold different ids, none of them registered.
IdsInUse ==
    /\ \A h \in DOMAIN torrents : h < next_id
    /\ \A t \in Allocated :
           /\ locks.task[t].handle_id < next_id
           /\ locks.task[t].handle_id \notin DOMAIN torrents
           /\ \A u \in Allocated \ {t} : locks.task[u].handle_id # locks.task[t].handle_id

\* A step hands out the value of the counter and increments it, or leaves the
\* counter as it is; a handle is registered under the id its call was handed.
IdsInOrder ==
    /\ next_id' = next_id \/ next_id' = next_id + 1
    /\ \A t \in Tasks :
           (t \notin Allocated /\ t \in Allocated')
               => locks'.task[t].handle_id = next_id /\ next_id' = next_id + 1
    /\ \A h \in DOMAIN torrents' \ DOMAIN torrents :
           \E t \in Allocated : locks.task[t].handle_id = h /\ t \notin Allocated'

\* C30: handle ids are handed out in strictly increasing order and never reused while
\* the process runs: two add_torrent calls, also concurrent ones, never get the same
\* id, and an id is not handed out again after its handle is removed.
C30_HandleIdsUnique == []IdsInUse /\ [][IdsInOrder]_vars

\* Two add_torrent calls in flight hold the ids 0 and 1, neither stored yet.
C30_Witness ==
    /\ Allocated = Tasks
    /\ {locks.task[t].handle_id : t \in Tasks} = {0, 1}
    /\ torrents = EmptyMap

----------------------------------------------------------------------------
(* Properties of the subtitles *)

\* extract_subtitle has returned a text extracted from a sample of the file.
PartialServed == last.op = "extract_subtitle" /\ last.path = "partial"

\* C31: after a subtitle extraction served from a partially downloaded file, the
\* background task re-extracts the track from the complete file and its result
\* replaces the cached subtitle of the track: a later load_subtitle_cache returns the
\* complete subtitles.
C31_BackgroundReplacesCache ==
    PartialServed ~> (subtitles.loaded = Some("complete"))

----------------------------------------------------------------------------
(* Properties of list_torrents *)

Listing(t) == locks.task[t].op = "list_torrents"

\* C32: list_torrents always returns: no interleaving of it with a writer of the
\* handle map leaves both waiting for the lock of the handle map forever.
C32_ListReturns == \A t \in Tasks : Listing(t) ~> Idle(t)

----------------------------------------------------------------------------
(* Properties of the engine's sessions *)

\* The sessions some registered handle is bound to or some cache entry names.
ReferencedSessions ==
    BoundSessions(DOMAIN torrents)
        \cup {torrent_cache[i].session_id : i \in 1 .. Len(torrent_cache)}

\* C33: every session in the engine is referenced by some registered handle's
\* session_id or by some cache entry, also after a failed engine call inside
\* remove_torrent or stop_stream.
C33_NoOrphanSessions == DOMAIN sessions \subseteq ReferencedSessions

----------------------------------------------------------------------------
(* Properties of the binding of handles *)

\* The handle is bound to a session the engine has.
Bound(h) ==
    /\ IsSome(torrents[h].session_id)
    /\ Unwrap(torrents[h].session_id) \in DOMAIN sessions

\* C34: a handle is only ever bound to a session of its own source, also when
\* prepare_stream resumes an entry restored from the cache file of an earlier run.
C34_BoundToOwnSource ==
    \A h \in DOMAIN torrents :
        Bound(h) => sessions[Unwrap(torrents[h].session_id)].uri = torrents[h].magnet_url

----------------------------------------------------------------------------
(* Properties of a failed stop_stream *)

\* The step is a stop_stream(_, false) in which the engine's pause, the file clearing
\* or the deletion of the evicted session fails.
CachingFails ==
    \E h \in HandleIds, fail \in StopFailures \ {"none"}, now \in Times :
        StopStream(h, FALSE, fail, now)

\* C35: if stop_stream(handle, false) returns an error (the engine's pause, the file
\* clearing or the deletion of the evicted session failed), the cache list, the handle
\* map and the cache file are as they were before the call.
C35_FailedCachingChangesNothing ==
    [][CachingFails => UNCHANGED <<torrent_cache, torrents, cache_file>>]_vars

----------------------------------------------------------------------------
(* Properties of the scratch files of concurrent requests *)

\* The scratch file of the request task t has in flight.
ScratchOf(t) ==
    TempFilePath(Unwrap(prober.running[t]).session_id, Unwrap(prober.running[t]).file_id)

\* C36: while one request is writing a scratch file or an external tool is reading
\* it, no other request in flight creates, truncates or deletes that file: two
\* requests in flight never have the same scratch file.
C36_ScratchFilesNotShared ==
    \A t, u \in Tasks :
        (t # u /\ IsSome(prober.running[t]) /\ IsSome(prober.running[u]))
            => ScratchOf(t) # ScratchOf(u)

----------------------------------------------------------------------------
(* Properties of the content length of stream_file *)

\* C37: for every Range header value and every file size, stream_file computes a
\* content length with 1 <= length <= file_size and start + length <= file_size, and
\* none of its unsigned subtractions underflows.
C37_ContentLengthInBounds ==
    (IsStreamFile(applied) /\ Unwrap(applied).reply.status # 500) =>
        LET a == Unwrap(applied)
            start == RangeOf(a.file_size, a.range, TRUE).start
        IN /\ a.reply.status # Panic
           /\ 1 <= a.reply.content_length
           /\ a.reply.content_length <= a.file_size
           /\ start + a.reply.content_length <= a.file_size

----------------------------------------------------------------------------
(* Properties of the data a probe asks for *)

\* C38: a metadata probe that sampled the whole file does not fail for lack of data:
\* it answers 503 only when it sampled fewer bytes than min(file_size, 10 MB).
C38_NotEnoughDataOnlyWhenShort ==
    (IsSome(sampler) /\ Unwrap(sampler).reply = "503") =>
        Unwrap(sampler).total_read < Min(Unwrap(sampler).file_size, MinProbeBytes)

----------------------------------------------------------------------------
(* Properties of the transcoded URLs of a status reply *)

\* C39: every status reply whose stream_info metadata marks an audio track as needing
\* transcoding carries a transcoded_url for that track, on the first poll that finds
\* the metadata and on every later poll.
C39_TranscodedUrlOnEveryPoll ==
    (IsStatusReply(last) /\ IsSome(last.metadata)) =>
        LET audio_tracks == Unwrap(last.metadata).audio_tracks
        IN \A i \in 1 .. Len(audio_tracks) :
               audio_tracks[i].needs_transcoding => IsSome(audio_tracks[i].transcoded_url)

----------------------------------------------------------------------------
(* Properties of the entries of the cache list *)

\* C40: in every reachable state the cache holds at most one entry per handle id and
\* at most one entry per source URI.
C40_OneEntryPerHandleAndSource ==
    \A i, j \in 1 .. Len(torrent_cache) :
        i # j => /\ torrent_cache[i].handle_id # torrent_cache[j].handle_id
                 /\ torrent_cache[i].magnet_url # torrent_cache[j].magnet_url

\* Two handles of one source are bound to its session, the second has just been
\* cached, and the cache holds the one entry of the source.
C40_Witness ==
    /\ last.op = "stop_stream" /\ last.path = "cached" /\ last.handle_id = 1
    /\ DOMAIN torrents = {0, 1}
    /\ torrents[0].magnet_url = torrents[1].magnet_url
    /\ torrents[0].session_id = torrents[1].session_id
    /\ Len(torrent_cache) = 1
    /\ torrent_cache[1].handle_id = 1

====
